---- MODULE Spec2Model ----
(***************************************************************************)
(* A model of notion-cli's local credential store: account-name            *)
(* validation and resolution, the CLI config document (config.json), the   *)
(* per-account token files with their legacy fallback, and the operations  *)
(* of internal/mcp/token_store.go on them.                                 *)
(*                                                                         *)
(* Strings that the code inspects character by character (account names)   *)
(* are sequences of one-character strings; opaque strings (token values,   *)
(* client ids) are TLA+ strings, "" being Go's empty string.               *)
(***************************************************************************)
EXTENDS Integers, Sequences, FiniteSets, TLC

VARIABLES
    accountFiles,   \* ~/.config/notion-cli/accounts/<name>.json, by account name
    legacyFile,     \* ~/.config/notion-cli/token.json
    configFile,     \* ~/.config/notion-cli/config.json
    dirEntries,     \* what else lies in ~/.config/notion-cli/accounts
    modes,          \* the permission bits of every file and directory above
    stores,         \* the FileTokenStore instances constructed so far
    procs,          \* goroutines inside a store operation: their position and locals
    mu,             \* the RWMutex of every FileTokenStore instance
    now,            \* the wall clock read by time.Now() (SavedAt)
    input,          \* the string handed to a pure function under test
    last,           \* the most recent call: operation, arguments, result
    savedClient,    \* history: per account, the argument of the last successful SaveClientID
                    \* and whether a SaveToken has succeeded since
    lastSet,        \* history: the argument of the last successful SetActiveAccount
    initialConfig,  \* history: config.json as it was found at start
    savedToken,     \* history: per account, the argument of the last successful SaveToken
    clearedAll      \* history: ClearAllTokens succeeded and no token file was written since

vars == <<accountFiles, legacyFile, configFile, dirEntries, modes, stores, procs, mu,
          now, input, last, savedClient, lastSet, initialConfig, savedToken, clearedAll>>

fsVars == <<accountFiles, legacyFile, configFile, dirEntries, modes>>
histVars == <<savedClient, lastSet, initialConfig, savedToken, clearedAll>>
concVars == <<procs, mu>>

(***************************************************************************)
(* Bounds of the model.                                                    *)
(***************************************************************************)
MaxLen == 3         \* longest string enumerated for ValidateAccountName
MaxNow == 3         \* the clock runs from 1 to MaxNow

(***************************************************************************)
(* Characters and strings.                                                 *)
(***************************************************************************)
\* Unicode code points of the characters the model uses.
CodePoint ==
    [c \in {"a","b","d","e","f","j","k","l","m","n","o","p","r","s","t","u","w","x",
            "Z","0","9",".","_","@","+","-"," ","/","*"} |->
        CASE c = "a" -> 97  [] c = "b" -> 98  [] c = "d" -> 100 [] c = "e" -> 101
          [] c = "f" -> 102 [] c = "k" -> 107 [] c = "l" -> 108 [] c = "o" -> 111
          [] c = "r" -> 114 [] c = "t" -> 116 [] c = "u" -> 117 [] c = "w" -> 119
          [] c = "j" -> 106 [] c = "m" -> 109 [] c = "n" -> 110 [] c = "p" -> 112
          [] c = "s" -> 115 [] c = "x" -> 120
          [] c = "Z" -> 90  [] c = "0" -> 48  [] c = "9" -> 57
          [] c = "." -> 46  [] c = "_" -> 95  [] c = "@" -> 64  [] c = "+" -> 43
          [] c = "-" -> 45  [] c = " " -> 32  [] c = "/" -> 47  [] c = "*" -> 42]

\* The alphabet strings are enumerated over: one character of every kind the
\* pattern distinguishes, and three it excludes.
Alphabet == {"a", "Z", "0", ".", "_", "@", "+", "-", " ", "/", "*"}

RECURSIVE StringsOfLen(_)
StringsOfLen(n) ==
    IF n = 0 THEN {<<>>}
    ELSE {Append(s, c) : s \in StringsOfLen(n - 1), c \in Alphabet}

Strings == UNION {StringsOfLen(n) : n \in 0..MaxLen}

defaultAccount == <<"d","e","f","a","u","l","t">>
workAccount == <<"w","o","r","k">>

\* A character class of a regular expression: code-point ranges.
InClass(class, c) == \E r \in class : r[1] <= CodePoint[c] /\ CodePoint[c] <= r[2]

\* [A-Za-z0-9]
headClass == {<<65, 90>>, <<97, 122>>, <<48, 57>>}
\* [A-Za-z0-9._@+-]  (the final - is a literal)
tailClass == headClass \cup {<<46, 46>>, <<95, 95>>, <<64, 64>>, <<43, 43>>, <<45, 45>>}

\* A pattern that lets a name start with any allowed character.
accountNameReAnyHead ==
    << [class |-> tailClass, star |-> FALSE], [class |-> tailClass, star |-> TRUE] >>
\* accountNameRe: ^ head tail* $ as a sequence of items, each a class taken
\* once or any number of times.
accountNameRe ==
    << [class |-> headClass, star |-> FALSE], [class |-> tailClass, star |-> TRUE] >>

\* regexp.MatchString for a pattern anchored at both ends: items i.. of re
\* match s from position j to its end.
RECURSIVE MatchFrom(_, _, _, _)
MatchFrom(re, i, s, j) ==
    IF i > Len(re) THEN j > Len(s)
    ELSE IF re[i].star
         THEN \/ MatchFrom(re, i + 1, s, j)
              \/ /\ j <= Len(s)
                 /\ InClass(re[i].class, s[j])
                 /\ MatchFrom(re, i, s, j + 1)
         ELSE /\ j <= Len(s)
              /\ InClass(re[i].class, s[j])
              /\ MatchFrom(re, i + 1, s, j + 1)

MatchString(re, s) == MatchFrom(re, 1, s, 1)

\* A validation that does not constrain the first character.
ValidateAccountNameNoStart(account) ==
    IF account = <<>> THEN "ErrInvalidAccount"
    ELSE IF ~MatchString(accountNameReAnyHead, account) THEN "ErrInvalidAccount"
    ELSE ""
\* ValidateAccountName: "" when the name is accepted, else the error it wraps.
ValidateAccountName(account) ==
    IF account = <<>> THEN "ErrInvalidAccount"
    ELSE IF ~MatchString(accountNameRe, account) THEN "ErrInvalidAccount"
    ELSE ""

\* strings.TrimSpace
RECURSIVE TrimLeft(_)
TrimLeft(s) == IF s # <<>> /\ Head(s) = " " THEN TrimLeft(Tail(s)) ELSE s
RECURSIVE TrimRightSpace(_)
TrimRightSpace(s) ==
    IF s # <<>> /\ s[Len(s)] = " " THEN TrimRightSpace(SubSeq(s, 1, Len(s) - 1)) ELSE s
TrimSpace(s) == TrimRightSpace(TrimLeft(s))

(***************************************************************************)
(* Files and JSON.                                                         *)
(*                                                                         *)
(* A file is absent, present with bytes that do not decode ("corrupt"),    *)
(* or present with a JSON object: a function from its keys to values.      *)
(* While os.WriteFile is at work the file is first empty (O_TRUNC) and     *)
(* then holds what was written over whatever another writer left ("torn"   *)
(* when a longer record shows behind a shorter one); neither decodes.      *)
(* Values of config.json are tagged with their JSON type because           *)
(* encoding/json treats the types differently when it decodes into `any`.  *)
(***************************************************************************)
Absent == [kind |-> "absent"]
Corrupt == [kind |-> "corrupt"]
JsonFile(doc) == [kind |-> "json", doc |-> doc]
Truncated == [kind |-> "empty"]
Torn(size) == [kind |-> "torn", size |-> size]

EmptyDoc == <<>>
SetKey(doc, k, v) == [x \in DOMAIN doc \cup {k} |-> IF x = k THEN v ELSE doc[x]]
HasKey(doc, k) == k \in DOMAIN doc

JStr(s) == [t |-> "str", v |-> s]
JBool(b) == [t |-> "bool", v |-> b]
JObj(o) == [t |-> "obj", v |-> o]
\* A JSON integer literal hi * 2^27 + lo, 0 <= lo < 2^27: a pair, because the
\* integers of interest exceed the model checker's 32-bit range.
JNum(hi, lo) == [t |-> "num", v |-> <<hi, lo>>]

\* The float64 nearest to the integer hi * 2^27 + lo < 2^54, ties to even:
\* integers below 2^53 are exact, those above are spaced two apart.
Float64(n) ==
    LET hi == n[1]
        lo == n[2]
    IN  IF hi < 2^26 \/ lo % 2 = 0 THEN n
        ELSE IF ((lo - 1) \div 2) % 2 = 0 THEN <<hi, lo - 1>>
        ELSE IF lo + 1 < 2^27 THEN <<hi, lo + 1>>
        ELSE <<hi + 1, 0>>

\* json.Unmarshal into `any`: numbers become float64, objects map[string]any.
RECURSIVE DecodeAny(_)
DecodeAny(val) ==
    CASE val.t = "num" -> [t |-> "num", v |-> Float64(val.v)]
      [] val.t = "obj" -> JObj([k \in DOMAIN val.v |-> DecodeAny(val.v[k])])
      [] OTHER -> val

\* json.Unmarshal of an object into map[string]any.
DecodeMap(doc) == [k \in DOMAIN doc |-> DecodeAny(doc[k])]

(***************************************************************************)
(* Token records (type storedToken) and their JSON form.                   *)
(***************************************************************************)
configDir == ".config/notion-cli"
legacyTokenFile == "token.json"
accountsDir == "accounts"

\* Times are natural numbers; 0 is the zero time.Time.
zeroStoredToken ==
    [AccessToken |-> "", TokenType |-> "", RefreshToken |-> "", ExpiresAt |-> 0,
     SavedAt |-> 0, ClientID |-> ""]

OptionalKey(k, v) == IF v = "" THEN EmptyDoc ELSE (k :> v)

\* json.MarshalIndent of a storedToken: omitempty drops an empty string; it
\* never drops a time.Time, which is a struct.
MarshalStoredToken(stored) ==
    ("access_token" :> stored.AccessToken) @@ ("token_type" :> stored.TokenType)
    @@ OptionalKey("refresh_token", stored.RefreshToken)
    @@ ("expires_at" :> stored.ExpiresAt) @@ ("saved_at" :> stored.SavedAt)
    @@ OptionalKey("client_id", stored.ClientID)

\* The bytes json.MarshalIndent(v, "", "  ") produces for a record: braces,
\* and a line per key with its indent, quotes, colon, value and separator.  A
\* time is taken at its shortest RFC 3339 form (whole seconds, UTC).
valueSize(doc, k) ==
    IF k \in {"expires_at", "saved_at"} THEN 22 ELSE Len(doc[k]) + 2

RECURSIVE linesSize(_, _)
linesSize(doc, keys) ==
    IF keys = {} THEN 0
    ELSE LET k == CHOOSE x \in keys : TRUE
         IN  Len(k) + 6 + valueSize(doc, k) + 2 + linesSize(doc, keys \ {k})

jsonSize(doc) == 3 + linesSize(doc, DOMAIN doc) - 1

\* The size of a file in bytes.
fileSize(f) ==
    CASE f.kind = "json" -> jsonSize(f.doc)
      [] f.kind = "torn" -> f.size
      [] OTHER -> 0

\* f.Write(data) of os.WriteFile at offset 0 of the file as it is by then:
\* bytes beyond the end of data stay.  A file unlinked meanwhile stays gone.
writeAtStart(doc, f) ==
    CASE f.kind = "absent" -> f
      [] jsonSize(doc) >= fileSize(f) -> JsonFile(doc)
      [] OTHER -> Torn(fileSize(f))

Field(doc, k, zero) == IF k \in DOMAIN doc THEN doc[k] ELSE zero

\* json.Unmarshal into a storedToken: a missing key leaves the zero value and
\* a key the struct does not declare is ignored.
UnmarshalStoredToken(doc) ==
    [AccessToken |-> Field(doc, "access_token", ""),
     TokenType |-> Field(doc, "token_type", ""),
     RefreshToken |-> Field(doc, "refresh_token", ""),
     ExpiresAt |-> Field(doc, "expires_at", 0),
     SavedAt |-> Field(doc, "saved_at", 0),
     ClientID |-> Field(doc, "client_id", "")]

(***************************************************************************)
(* Paths and the files behind them.                                        *)
(***************************************************************************)
configDirPath == <<configDir>>
cliConfigPath == <<configDir, "config.json">>
accountsDirectoryPath == <<configDir, accountsDir>>
accountTokenPath(account) == Append(accountsDirectoryPath, account)
legacyTokenPath == <<configDir, legacyTokenFile>>

\* The valid account names the model follows files for.
AccountPool == {defaultAccount, workAccount}

\* os.ReadFile / os.Stat of a token path.
FileAt(path) ==
    IF path = legacyTokenPath THEN legacyFile ELSE accountFiles[path[3]]

(***************************************************************************)
(* Permission modes: the set of permission bits of a file or directory.    *)
(***************************************************************************)
NoEntry == {"none"}                     \* nothing exists at the path
ownerFile == {"ur", "uw"}               \* 0600
ownerDir == {"ur", "uw", "ux"}          \* 0700
wideFile == {"ur", "uw", "gr", "or"}    \* 0644
wideDir == {"ur", "uw", "ux", "gr", "gx", "or", "ox"}   \* 0755
umask == {"gw", "ow"}                   \* the usual 022 of a login shell

\* The paths whose modes the model follows.
PermPaths ==
    {configDirPath, accountsDirectoryPath, legacyTokenPath, cliConfigPath}
        \cup {accountTokenPath(a) : a \in AccountPool}

\* The directories os.MkdirAll(dir, perm) may have to create.
dirsUpTo(dir) ==
    IF dir = accountsDirectoryPath THEN {configDirPath, accountsDirectoryPath}
    ELSE {configDirPath}

\* os.MkdirAll: a missing directory is created with perm less the umask; an
\* existing one is left as it is.
MkdirAll(m, dir, perm) ==
    [p \in DOMAIN m |->
        IF p \in dirsUpTo(dir) /\ m[p] = NoEntry THEN perm \ umask ELSE m[p]]

\* The mode os.WriteFile(path, data, perm) leaves: perm less the umask for a
\* file it creates; an existing file is truncated and keeps its mode.
WriteFile(m, path, perm) ==
    [m EXCEPT ![path] = IF @ = NoEntry THEN perm \ umask ELSE @]

\* os.Remove / os.RemoveAll of paths.
removeAll(m, paths) == [p \in DOMAIN m |-> IF p \in paths THEN NoEntry ELSE m[p]]

\* The modes of a home directory holding the given files, all created with
\* fileMode inside directories created with dirMode.
modesOf(af, lf, cf, entries, fileMode, dirMode) ==
    [p \in PermPaths |->
        CASE p = configDirPath ->
                IF \/ \E a \in AccountPool : af[a].kind # "absent"
                   \/ lf.kind # "absent" \/ cf.kind # "absent" \/ entries # {}
                THEN dirMode ELSE NoEntry
          [] p = accountsDirectoryPath ->
                IF (\E a \in AccountPool : af[a].kind # "absent") \/ entries # {}
                THEN dirMode ELSE NoEntry
          [] p = legacyTokenPath -> IF lf.kind # "absent" THEN fileMode ELSE NoEntry
          [] p = cliConfigPath -> IF cf.kind # "absent" THEN fileMode ELSE NoEntry
          [] OTHER -> IF af[p[3]].kind # "absent" THEN fileMode ELSE NoEntry]

(***************************************************************************)
(* The CLI config document.                                                *)
(***************************************************************************)
\* readCLIConfig: a missing file is an empty cliConfig.
readCLIConfig ==
    CASE configFile.kind = "absent" -> [ActiveAccount |-> <<>>, err |-> ""]
      [] configFile.kind = "corrupt" -> [ActiveAccount |-> <<>>, err |-> "decode"]
      [] OTHER ->
            IF ~HasKey(configFile.doc, "active_account")
            THEN [ActiveAccount |-> <<>>, err |-> ""]
            ELSE IF configFile.doc["active_account"].t = "str"
            THEN [ActiveAccount |-> configFile.doc["active_account"].v, err |-> ""]
            ELSE [ActiveAccount |-> <<>>, err |-> "decode"]

\* writeCLIConfig: the file it leaves, or the error it returns instead.
writeCLIConfig(cfg) ==
    CASE configFile.kind = "absent" ->
            [file |-> JsonFile(SetKey(EmptyDoc, "active_account", JStr(cfg.ActiveAccount))),
             err |-> ""]
      [] configFile.kind = "corrupt" -> [file |-> configFile, err |-> "decode"]
      [] OTHER ->
            [file |-> JsonFile(SetKey(DecodeMap(configFile.doc), "active_account",
                                      JStr(cfg.ActiveAccount))),
             err |-> ""]

\* A resolution that lets the persisted active account override the argument.
resolveConfigFirst(account) ==
    LET normalized == TrimSpace(account)
        cfg == readCLIConfig
    IN  IF cfg.err = "" /\ cfg.ActiveAccount # <<>> /\ ValidateAccountName(cfg.ActiveAccount) = ""
        THEN [name |-> cfg.ActiveAccount, err |-> ""]
        ELSE IF normalized # <<>>
        THEN [name |-> normalized, err |-> ValidateAccountName(normalized)]
        ELSE [name |-> defaultAccount, err |-> cfg.err]
\* resolveAccountNameForHome
resolveAccountNameForHome(account) ==
    LET normalized == TrimSpace(account)
        cfg == readCLIConfig
    IN  IF normalized # <<>>
        THEN IF ValidateAccountName(normalized) # ""
             THEN [name |-> <<>>, err |-> ValidateAccountName(normalized)]
             ELSE [name |-> normalized, err |-> ""]
        ELSE IF cfg.err # "" THEN [name |-> <<>>, err |-> cfg.err]
        ELSE IF cfg.ActiveAccount # <<>>
        THEN IF ValidateAccountName(cfg.ActiveAccount) # ""
             THEN [name |-> <<>>, err |-> ValidateAccountName(cfg.ActiveAccount)]
             ELSE [name |-> cfg.ActiveAccount, err |-> ""]
        ELSE [name |-> defaultAccount, err |-> ""]

(***************************************************************************)
(* FileTokenStore.                                                         *)
(***************************************************************************)
NoStore == [account |-> <<>>, path |-> <<>>]
StoreIds == {"s1"}

\* Candidate paths with the legacy fallback for every account.
candidatePathsLegacyForAll(s) == <<s.path, legacyTokenPath>>
\* The candidate paths of readStoredTokenUnlocked, in the order it tries them.
candidatePaths(s) ==
    IF s.account = defaultAccount THEN <<s.path, legacyTokenPath>> ELSE <<s.path>>

\* A loop that goes on to the next path when a file does not parse.
RECURSIVE readPathsSkippingUnparseable(_, _)
readPathsSkippingUnparseable(paths, reads) ==
    IF paths = <<>>
    THEN [stored |-> zeroStoredToken, err |-> "ErrNoToken", reads |-> reads]
    ELSE LET f == FileAt(Head(paths))
             r == Append(reads, Head(paths))
         IN  IF f.kind = "json"
             THEN [stored |-> UnmarshalStoredToken(f.doc), err |-> "", reads |-> r]
             ELSE readPathsSkippingUnparseable(Tail(paths), r)
\* The loop of readStoredTokenUnlocked over the remaining paths; reads are the
\* paths handed to os.ReadFile so far.
RECURSIVE readPaths(_, _)
readPaths(paths, reads) ==
    IF paths = <<>>
    THEN [stored |-> zeroStoredToken, err |-> "ErrNoToken", reads |-> reads]
    ELSE LET f == FileAt(Head(paths))
             r == Append(reads, Head(paths))
         IN  CASE f.kind = "absent" -> readPaths(Tail(paths), r)
               [] f.kind \in {"corrupt", "empty", "torn"} ->
                     [stored |-> zeroStoredToken, err |-> "decode", reads |-> r]
               [] OTHER ->
                     [stored |-> UnmarshalStoredToken(f.doc), err |-> "", reads |-> r]

readStoredTokenUnlocked(s) == readPaths(candidatePaths(s), <<>>)

\* A migration without the os.Stat of s.path.
migrateLegacyWithoutStat(s) ==
    IF s.account # defaultAccount THEN [write |-> FALSE, data |-> Absent]
    ELSE IF legacyFile.kind = "absent" THEN [write |-> FALSE, data |-> Absent]
    ELSE [write |-> TRUE, data |-> legacyFile]
\* migrateLegacyDefaultIfNeeded: whether it writes s.path, and the bytes.
migrateLegacyDefaultIfNeeded(s) ==
    IF s.account # defaultAccount THEN [write |-> FALSE, data |-> Absent]
    ELSE IF FileAt(s.path).kind # "absent" THEN [write |-> FALSE, data |-> Absent]
    ELSE IF legacyFile.kind = "absent" THEN [write |-> FALSE, data |-> Absent]
    ELSE [write |-> TRUE, data |-> legacyFile]

\* A record built from the token alone, without the existing client id.
storedForSaveDroppingClientID(token, existing) ==
    [AccessToken |-> token.AccessToken,
     TokenType |-> token.TokenType,
     RefreshToken |-> token.RefreshToken,
     ExpiresAt |-> token.ExpiresAt,
     SavedAt |-> now,
     ClientID |-> ""]
\* The record SaveToken writes (the struct literal of SaveToken).
storedForSave(token, existing) ==
    [AccessToken |-> token.AccessToken,
     TokenType |-> token.TokenType,
     RefreshToken |-> token.RefreshToken,
     ExpiresAt |-> token.ExpiresAt,
     SavedAt |-> now,
     ClientID |-> existing.ClientID]

\* A record holding the client id alone.
storedForClientIDAlone(clientID, existing) == [zeroStoredToken EXCEPT !.ClientID = clientID]
\* The record SaveClientID writes.
storedForClientID(clientID, existing) == [existing EXCEPT !.ClientID = clientID]

\* A token without the record's refresh token.
tokenWithoutRefresh(stored) ==
    [AccessToken |-> stored.AccessToken,
     TokenType |-> stored.TokenType,
     RefreshToken |-> "",
     ExpiresAt |-> stored.ExpiresAt]
\* The transport.Token GetToken builds from the record it read.
tokenOf(stored) ==
    [AccessToken |-> stored.AccessToken,
     TokenType |-> stored.TokenType,
     RefreshToken |-> stored.RefreshToken,
     ExpiresAt |-> stored.ExpiresAt]

\* A Clear that forgets the legacy file.
clearPathsOwnOnly(s) == {s.path}
\* A Clear that removes the legacy file whatever the account.
clearPathsWithLegacy(s) == {s.path, legacyTokenPath}
\* The paths Clear hands to os.Remove.
clearPaths(s) ==
    IF s.account = defaultAccount THEN {s.path, legacyTokenPath} ELSE {s.path}

\* sort.Strings: ascending byte order.
RECURSIVE StrLess(_, _)
StrLess(a, b) ==
    IF a = <<>> THEN b # <<>>
    ELSE IF b = <<>> THEN FALSE
    ELSE IF CodePoint[Head(a)] # CodePoint[Head(b)]
         THEN CodePoint[Head(a)] < CodePoint[Head(b)]
         ELSE StrLess(Tail(a), Tail(b))

RECURSIVE SortStrings(_)
SortStrings(S) ==
    IF S = {} THEN <<>>
    ELSE LET m == CHOOSE x \in S : \A y \in S \ {x} : StrLess(x, y)
         IN  <<m>> \o SortStrings(S \ {m})

\* strings.HasSuffix, strings.TrimSuffix
jsonSuffix == <<".", "j", "s", "o", "n">>
HasSuffix(s, suffix) ==
    Len(s) >= Len(suffix) /\ SubSeq(s, Len(s) - Len(suffix) + 1, Len(s)) = suffix
TrimSuffix(s, suffix) ==
    IF HasSuffix(s, suffix) THEN SubSeq(s, 1, Len(s) - Len(suffix)) ELSE s

\* os.ReadDir of the accounts directory: the token files and whatever else
\* lies there; a missing directory lists nothing.
readDir ==
    {[name |-> a \o jsonSuffix, isDir |-> FALSE] :
        a \in {b \in AccountPool : accountFiles[b].kind # "absent"}} \cup dirEntries

\* A loop that does not skip directories.
accountsInDirWithDirectories ==
    {TrimSuffix(e.name, jsonSuffix) :
        e \in {d \in readDir :
                    /\ HasSuffix(d.name, jsonSuffix)
                    /\ ValidateAccountName(TrimSuffix(d.name, jsonSuffix)) = ""}}
\* The accounts the loop of ListAccounts takes from the directory listing.
accountsInDir ==
    {TrimSuffix(e.name, jsonSuffix) :
        e \in {d \in readDir :
                    /\ ~d.isDir
                    /\ HasSuffix(d.name, jsonSuffix)
                    /\ ValidateAccountName(TrimSuffix(d.name, jsonSuffix)) = ""}}

\* A listing that skips an invalid active account as it skips invalid file names.
listAccountsSkippingInvalid ==
    LET cfg == readCLIConfig
        fromConfig == IF cfg.ActiveAccount # <<>> /\ ValidateAccountName(cfg.ActiveAccount) = ""
                      THEN {cfg.ActiveAccount} ELSE {}
        fromDir == accountsInDir
        fromLegacy == IF legacyFile.kind # "absent" THEN {defaultAccount} ELSE {}
    IN  IF cfg.err # "" THEN [accounts |-> <<>>, err |-> cfg.err]
        ELSE [accounts |-> SortStrings(fromConfig \cup fromDir \cup fromLegacy),
              err |-> ""]
\* The result of ListAccounts: the sorted accounts, or the error.
listAccounts ==
    LET cfg == readCLIConfig
        fromConfig == IF cfg.ActiveAccount # <<>> THEN {cfg.ActiveAccount} ELSE {}
        fromDir == accountsInDir
        fromLegacy == IF legacyFile.kind # "absent" THEN {defaultAccount} ELSE {}
    IN  IF cfg.err # "" THEN [accounts |-> <<>>, err |-> cfg.err]
        ELSE IF cfg.ActiveAccount # <<>> /\ ValidateAccountName(cfg.ActiveAccount) # ""
        THEN [accounts |-> <<>>, err |-> ValidateAccountName(cfg.ActiveAccount)]
        ELSE [accounts |-> SortStrings(fromConfig \cup fromDir \cup fromLegacy),
              err |-> ""]

(***************************************************************************)
(* Inputs.                                                                 *)
(***************************************************************************)
\* Account arguments: none, the two valid names, a padded valid name, an
\* invalid name and blanks only.
paddedWork == <<" ","w","o","r","k"," ">>
invalidName == <<"b","/">>
NameInputs == {<<>>, defaultAccount, workAccount, paddedWork, invalidName, <<" ">>}

Token1 == [AccessToken |-> "A1", TokenType |-> "Bearer", RefreshToken |-> "R1",
           ExpiresAt |-> 2]
\* A refresh response that carries no refresh token and no expiry.
Token2 == [AccessToken |-> "A2", TokenType |-> "Bearer", RefreshToken |-> "",
           ExpiresAt |-> 0]
Tokens == {Token1, Token2}

\* Entries of the accounts directory besides the token files of AccountPool: a
\* token file of another account, a directory named like one, a file of
\* another kind, names that are no account names, a name sorting before the
\* lower-case ones and a name that itself ends in .json.
personalAccount == <<"p","e","r","s","o","n","a","l">>
teamAccount == <<"t","e","a","m">>
ExtraEntries ==
    {[name |-> personalAccount \o jsonSuffix, isDir |-> FALSE],
     [name |-> teamAccount \o jsonSuffix, isDir |-> TRUE],
     [name |-> <<"n","o","t","e","s",".","t","x","t">>, isDir |-> FALSE],
     [name |-> jsonSuffix, isDir |-> FALSE],
     [name |-> <<"-","x">> \o jsonSuffix, isDir |-> FALSE],
     [name |-> <<"Z","e","d">> \o jsonSuffix, isDir |-> FALSE],
     [name |-> <<"x">> \o jsonSuffix \o jsonSuffix, isDir |-> FALSE]}

ClientIDs == {"C1", "C2"}
NoClient == "<none>"
NoSavedClient == [id |-> NoClient, tokenSavedSince |-> FALSE]
NoSavedToken == [saved |-> FALSE, token |-> tokenOf(zeroStoredToken)]

\* Legacy token files as an older release left them: no saved_at, and a key
\* storedToken does not declare.
LegacyDoc1 ==
    ("access_token" :> "AL") @@ ("token_type" :> "Bearer") @@ ("refresh_token" :> "RL")
    @@ ("expires_at" :> 2) @@ ("client_id" :> "CL") @@ ("scope" :> "read")
LegacyDoc2 ==
    ("access_token" :> "AM") @@ ("token_type" :> "Bearer") @@ ("expires_at" :> 0)

(***************************************************************************)
(* Goroutines and store instances, for the operations taken step by step.  *)
(***************************************************************************)
ProcIds == {"p1", "p2", "p3"}
InstIds == {"i1", "i2"}
NoProc == "none"

\* A goroutine outside any store operation.
IdleProc ==
    [op |-> "none", pc |-> "idle", inst |-> "i1", token |-> tokenOf(zeroStoredToken),
     clientID |-> "", data |-> EmptyDoc, err |-> ""]

\* The zero sync.RWMutex.
Unlocked == [writer |-> NoProc, readers |-> {}]

(***************************************************************************)
(* Operations.  Every operation records its call in `last`.                *)
(***************************************************************************)
Call(op, id, account, arg, err, out) ==
    [op |-> op, id |-> id, account |-> account, arg |-> arg, err |-> err, out |-> out]

NoCall == Call("none", "", <<>>, <<>>, "", <<>>)

\* NewFileTokenStoreForAccount(account), the instance kept as stores[id].
NewFileTokenStoreForAccount(id, account) ==
    LET r == resolveAccountNameForHome(account)
        store == [account |-> r.name, path |-> accountTokenPath(r.name)]
        m == migrateLegacyDefaultIfNeeded(store)
    IN  /\ IF r.err # ""
           THEN /\ last' = Call("NewFileTokenStoreForAccount", id, <<>>, account, r.err,
                                [store |-> NoStore, migrated |-> FALSE])
                /\ UNCHANGED <<accountFiles, modes, stores>>
           ELSE /\ stores' = [stores EXCEPT ![id] = store]
                /\ accountFiles' = IF m.write
                                    THEN [accountFiles EXCEPT ![store.account] = m.data]
                                    ELSE accountFiles
                /\ modes' = IF m.write
                             THEN WriteFile(MkdirAll(modes, accountsDirectoryPath, ownerDir),
                                            store.path, ownerFile)
                             ELSE modes
                /\ last' = Call("NewFileTokenStoreForAccount", id, store.account, account,
                                "", [store |-> store, migrated |-> m.write])
        /\ UNCHANGED <<legacyFile, configFile, dirEntries, now, input, concVars, histVars>>

\* s.GetToken(ctx)
GetToken(id, cancelled) ==
    LET s == stores[id]
        r == readStoredTokenUnlocked(s)
    IN  /\ s # NoStore
        /\ last' = IF cancelled
                    THEN Call("GetToken", id, s.account, cancelled, "canceled",
                              [token |-> tokenOf(zeroStoredToken), reads |-> <<>>])
                    ELSE IF r.err # ""
                    THEN Call("GetToken", id, s.account, cancelled, r.err,
                              [token |-> tokenOf(zeroStoredToken), reads |-> r.reads])
                    ELSE Call("GetToken", id, s.account, cancelled, "",
                              [token |-> tokenOf(r.stored), reads |-> r.reads])
        /\ UNCHANGED <<fsVars, stores, now, input, concVars, histVars>>

\* A GetClientID that treats every read error as "no client id yet".
GetClientIDSwallowingErrors(id, cancelled) ==
    LET s == stores[id]
        r == readStoredTokenUnlocked(s)
    IN  /\ s # NoStore
        /\ last' = IF cancelled
                    THEN Call("GetClientID", id, s.account, cancelled, "canceled", "")
                    ELSE IF r.err # ""
                    THEN Call("GetClientID", id, s.account, cancelled, "", "")
                    ELSE Call("GetClientID", id, s.account, cancelled, "", r.stored.ClientID)
        /\ UNCHANGED <<fsVars, stores, now, input, concVars, histVars>>
\* s.GetClientID(ctx)
GetClientID(id, cancelled) ==
    LET s == stores[id]
        r == readStoredTokenUnlocked(s)
    IN  /\ s # NoStore
        /\ last' = IF cancelled
                    THEN Call("GetClientID", id, s.account, cancelled, "canceled", "")
                    ELSE IF r.err = "ErrNoToken"
                    THEN Call("GetClientID", id, s.account, cancelled, "", "")
                    ELSE IF r.err # ""
                    THEN Call("GetClientID", id, s.account, cancelled, r.err, "")
                    ELSE Call("GetClientID", id, s.account, cancelled, "", r.stored.ClientID)
        /\ UNCHANGED <<fsVars, stores, now, input, concVars, histVars>>

\* A SaveToken that starts from an empty record whenever the read fails.
SaveTokenOverUnreadable(id, cancelled, token) ==
    LET s == stores[id]
        r == readStoredTokenUnlocked(s)
        err == IF cancelled THEN "canceled" ELSE ""
        existing == IF r.err = "" THEN r.stored ELSE zeroStoredToken
        stored == storedForSave(token, existing)
    IN  /\ s # NoStore
        /\ last' = Call("SaveToken", id, s.account,
                        [cancelled |-> cancelled, token |-> token], err, <<>>)
        /\ accountFiles' = IF err # "" THEN accountFiles
                            ELSE [accountFiles EXCEPT
                                    ![s.path[3]] = JsonFile(MarshalStoredToken(stored))]
        /\ modes' = IF cancelled THEN modes
                     ELSE WriteFile(MkdirAll(modes, accountsDirectoryPath, ownerDir),
                                    s.path, ownerFile)
        /\ savedClient' = IF err # "" \/ savedClient[s.account].id = NoClient THEN savedClient
                           ELSE [savedClient EXCEPT ![s.account].tokenSavedSince = TRUE]
        /\ savedToken' = IF err # "" THEN savedToken
                          ELSE [savedToken EXCEPT ![s.account] = [saved |-> TRUE, token |-> token]]
        /\ clearedAll' = (clearedAll /\ err # "")
        /\ UNCHANGED <<legacyFile, configFile, dirEntries, stores, now, input, concVars,
                       lastSet, initialConfig>>
\* s.SaveToken(ctx, token)
SaveToken(id, cancelled, token) ==
    LET s == stores[id]
        r == readStoredTokenUnlocked(s)
        err == IF cancelled THEN "canceled"
               ELSE IF r.err \notin {"", "ErrNoToken"} THEN r.err ELSE ""
        existing == IF r.err = "" THEN r.stored ELSE zeroStoredToken
        stored == storedForSave(token, existing)
    IN  /\ s # NoStore
        /\ last' = Call("SaveToken", id, s.account,
                        [cancelled |-> cancelled, token |-> token], err, <<>>)
        /\ accountFiles' = IF err # "" THEN accountFiles
                            ELSE [accountFiles EXCEPT
                                    ![s.path[3]] = JsonFile(MarshalStoredToken(stored))]
        /\ modes' = IF cancelled THEN modes
                     ELSE IF err # "" THEN MkdirAll(modes, accountsDirectoryPath, ownerDir)
                     ELSE WriteFile(MkdirAll(modes, accountsDirectoryPath, ownerDir),
                                    s.path, ownerFile)
        /\ savedClient' = IF err # "" \/ savedClient[s.account].id = NoClient THEN savedClient
                           ELSE [savedClient EXCEPT ![s.account].tokenSavedSince = TRUE]
        /\ savedToken' = IF err # "" THEN savedToken
                          ELSE [savedToken EXCEPT ![s.account] = [saved |-> TRUE, token |-> token]]
        /\ clearedAll' = (clearedAll /\ err # "")
        /\ UNCHANGED <<legacyFile, configFile, dirEntries, stores, now, input, concVars,
                       lastSet, initialConfig>>

\* s.SaveClientID(ctx, clientID)
SaveClientID(id, cancelled, clientID) ==
    LET s == stores[id]
        r == readStoredTokenUnlocked(s)
        err == IF cancelled THEN "canceled"
               ELSE IF r.err \notin {"", "ErrNoToken"} THEN r.err ELSE ""
        existing == IF r.err = "" THEN r.stored ELSE zeroStoredToken
        stored == storedForClientID(clientID, existing)
    IN  /\ s # NoStore
        /\ last' = Call("SaveClientID", id, s.account,
                        [cancelled |-> cancelled, clientID |-> clientID], err, <<>>)
        /\ accountFiles' = IF err # "" THEN accountFiles
                            ELSE [accountFiles EXCEPT
                                    ![s.path[3]] = JsonFile(MarshalStoredToken(stored))]
        /\ modes' = IF cancelled THEN modes
                     ELSE IF err # "" THEN MkdirAll(modes, accountsDirectoryPath, ownerDir)
                     ELSE WriteFile(MkdirAll(modes, accountsDirectoryPath, ownerDir),
                                    s.path, ownerFile)
        /\ savedClient' = IF err # "" THEN savedClient
                           ELSE [savedClient EXCEPT
                                    ![s.account] = [id |-> clientID, tokenSavedSince |-> FALSE]]
        /\ clearedAll' = (clearedAll /\ err # "")
        /\ UNCHANGED <<legacyFile, configFile, dirEntries, stores, now, input, concVars,
                       lastSet, initialConfig, savedToken>>

\* s.Clear(): os.Remove of a missing file is not an error.
Clear(id) ==
    LET s == stores[id]
        gone == clearPaths(s)
    IN  /\ s # NoStore
        /\ accountFiles' = [a \in AccountPool |->
                                IF accountTokenPath(a) \in gone THEN Absent
                                ELSE accountFiles[a]]
        /\ legacyFile' = IF legacyTokenPath \in gone THEN Absent ELSE legacyFile
        /\ modes' = removeAll(modes, gone)
        /\ savedClient' = [savedClient EXCEPT ![s.account] = NoSavedClient]
        /\ savedToken' = [savedToken EXCEPT ![s.account] = NoSavedToken]
        /\ last' = Call("Clear", id, s.account, <<>>, "", <<>>)
        /\ UNCHANGED <<configFile, dirEntries, stores, now, input, concVars, lastSet,
                       initialConfig, clearedAll>>

\* A removal of the accounts directory alone.
ClearAllTokensKeepingLegacy ==
    /\ accountFiles' = [a \in AccountPool |-> Absent]
    /\ dirEntries' = {}
    /\ modes' = removeAll(modes, {accountsDirectoryPath}
                                    \cup {accountTokenPath(a) : a \in AccountPool})
    /\ savedClient' = [a \in AccountPool |-> NoSavedClient]
    /\ savedToken' = [a \in AccountPool |-> NoSavedToken]
    /\ clearedAll' = TRUE
    /\ last' = Call("ClearAllTokens", "", <<>>, <<>>, "", <<>>)
    /\ UNCHANGED <<legacyFile, configFile, stores, now, input, concVars, lastSet,
                   initialConfig>>
\* ClearAllTokens(): removes the accounts directory and the legacy file.
ClearAllTokens ==
    /\ accountFiles' = [a \in AccountPool |-> Absent]
    /\ legacyFile' = Absent
    /\ dirEntries' = {}
    /\ modes' = removeAll(modes, {accountsDirectoryPath, legacyTokenPath}
                                    \cup {accountTokenPath(a) : a \in AccountPool})
    /\ savedClient' = [a \in AccountPool |-> NoSavedClient]
    /\ savedToken' = [a \in AccountPool |-> NoSavedToken]
    /\ clearedAll' = TRUE
    /\ last' = Call("ClearAllTokens", "", <<>>, <<>>, "", <<>>)
    /\ UNCHANGED <<configFile, stores, now, input, concVars, lastSet, initialConfig>>

\* ResolveAccountName(account)
ResolveAccountName(account) ==
    LET r == resolveAccountNameForHome(account)
    IN  /\ last' = Call("ResolveAccountName", "", <<>>, account, r.err, r.name)
        /\ UNCHANGED <<fsVars, stores, now, input, concVars, histVars>>

\* GetActiveAccount() is ResolveAccountName("").
GetActiveAccount ==
    LET r == resolveAccountNameForHome(<<>>)
    IN  /\ last' = Call("GetActiveAccount", "", <<>>, <<>>, r.err, r.name)
        /\ UNCHANGED <<fsVars, stores, now, input, concVars, histVars>>

\* A SetActiveAccount that writes the trimmed name without validating it.
SetActiveAccountUnchecked(account) ==
    LET normalized == TrimSpace(account)
        cfg == readCLIConfig
        w == writeCLIConfig([ActiveAccount |-> normalized])
        err == IF cfg.err # "" THEN cfg.err ELSE w.err
    IN  /\ configFile' = IF err # "" THEN configFile ELSE w.file
        /\ lastSet' = IF err # "" THEN lastSet ELSE [ok |-> TRUE, arg |-> account]
        /\ last' = Call("SetActiveAccount", "", <<>>, account, err, <<>>)
        /\ modes' = IF err # "" THEN modes
                     ELSE WriteFile(MkdirAll(modes, configDirPath, ownerDir),
                                    cliConfigPath, ownerFile)
        /\ UNCHANGED <<accountFiles, legacyFile, dirEntries, stores, now, input, concVars,
                       savedClient, initialConfig, savedToken, clearedAll>>
\* SetActiveAccount(account)
SetActiveAccount(account) ==
    LET normalized == TrimSpace(account)
        cfg == readCLIConfig
        w == writeCLIConfig([ActiveAccount |-> normalized])
        err == IF ValidateAccountName(normalized) # ""
               THEN ValidateAccountName(normalized)
               ELSE IF cfg.err # "" THEN cfg.err
               ELSE w.err
    IN  /\ configFile' = IF err # "" THEN configFile ELSE w.file
        /\ lastSet' = IF err # "" THEN lastSet ELSE [ok |-> TRUE, arg |-> account]
        /\ last' = Call("SetActiveAccount", "", <<>>, account, err, <<>>)
        /\ modes' = IF err # "" THEN modes
                     ELSE WriteFile(MkdirAll(modes, configDirPath, ownerDir),
                                    cliConfigPath, ownerFile)
        /\ UNCHANGED <<accountFiles, legacyFile, dirEntries, stores, now, input, concVars,
                       savedClient, initialConfig, savedToken, clearedAll>>

\* ListAccounts()
ListAccounts ==
    LET r == listAccounts
    IN  /\ last' = Call("ListAccounts", "", <<>>, <<>>, r.err, r.accounts)
        /\ UNCHANGED <<fsVars, stores, now, input, concVars, histVars>>

\* The user, or an older release, rewrites the legacy token file.
EditLegacyFile(content) ==
    /\ legacyFile # content
    /\ legacyFile' = content
    /\ modes' = WriteFile(MkdirAll(modes, configDirPath, ownerDir), legacyTokenPath, ownerFile)
    /\ clearedAll' = FALSE
    /\ last' = Call("EditLegacyFile", "", <<>>, <<>>, "", <<>>)
    /\ UNCHANGED <<accountFiles, configFile, dirEntries, stores, now, input, concVars,
                   savedClient, lastSet, initialConfig, savedToken>>

\* A token file is damaged on disk (a truncated write, a hand edit).
DamageTokenFile(account) ==
    /\ accountFiles[account].kind = "json"
    /\ accountFiles' = [accountFiles EXCEPT ![account] = Corrupt]
    /\ savedClient' = [savedClient EXCEPT ![account] = NoSavedClient]
    /\ savedToken' = [savedToken EXCEPT ![account] = NoSavedToken]
    /\ last' = Call("DamageTokenFile", "", account, <<>>, "", <<>>)
    /\ UNCHANGED <<legacyFile, configFile, dirEntries, modes, stores, now, input, concVars,
                   lastSet, initialConfig, clearedAll>>

\* ValidateAccountName applied to the string under test.
Validate ==
    /\ last.op = "none"
    /\ last' = Call("ValidateAccountName", "", <<>>, input, ValidateAccountName(input), <<>>)
    /\ UNCHANGED <<fsVars, stores, now, input, concVars, histVars>>

(***************************************************************************)
(* The official-API configuration (internal/config) kept in config.json.   *)
(* Its strings are sequences of characters, "" being <<>>.                 *)
(***************************************************************************)
defaultBaseURL ==
    <<"h","t","t","p","s",":","/","/","a","p","i",".","n","o","t","i","o","n",".",
      "c","o","m","/","v","1">>
defaultNotionAPIRev == <<"2","0","2","2","-","0","6","-","2","8">>

\* config.Default()
Default ==
    [ActiveAccount |-> <<>>,
     API |-> [BaseURL |-> defaultBaseURL, NotionVersion |-> defaultNotionAPIRev,
              Token |-> <<>>]]

\* strings.TrimRight(s, "/")
RECURSIVE TrimRight(_)
TrimRight(s) ==
    IF s # <<>> /\ s[Len(s)] = "/" THEN TrimRight(SubSeq(s, 1, Len(s) - 1)) ELSE s

\* normalize(&cfg)
normalize(cfg) ==
    LET trimmed == TrimSpace(cfg.API.BaseURL)
        base == IF trimmed = <<>> THEN defaultBaseURL ELSE trimmed
        version == TrimSpace(cfg.API.NotionVersion)
    IN  [cfg EXCEPT !.API.BaseURL = TrimRight(base),
                    !.API.NotionVersion = IF version = <<>> THEN defaultNotionAPIRev
                                           ELSE version,
                    !.API.Token = TrimSpace(cfg.API.Token)]

\* The environment: a variable that is unset reads as the empty string.
NoEnv == [NOTION_API_BASE_URL |-> <<>>, NOTION_API_NOTION_VERSION |-> <<>>,
          NOTION_API_TOKEN |-> <<>>]

\* applyEnvOverrides(&cfg)
applyEnvOverrides(cfg, env) ==
    [cfg EXCEPT
        !.API.BaseURL = IF env.NOTION_API_BASE_URL # <<>>
                        THEN env.NOTION_API_BASE_URL ELSE @,
        !.API.NotionVersion = IF env.NOTION_API_NOTION_VERSION # <<>>
                              THEN env.NOTION_API_NOTION_VERSION ELSE @,
        !.API.Token = IF env.NOTION_API_TOKEN # <<>> THEN env.NOTION_API_TOKEN ELSE @]

\* json.Unmarshal of one string field of a struct: a missing key leaves the
\* field as it is, a value of another JSON type is an error.
stringField(doc, k, current) ==
    IF ~HasKey(doc, k) THEN [v |-> current, ok |-> TRUE]
    ELSE IF doc[k].t = "str" THEN [v |-> doc[k].v, ok |-> TRUE]
    ELSE [v |-> current, ok |-> FALSE]

\* os.ReadFile and json.Unmarshal(data, &cfg) over cfg := Default(), as Load
\* and LoadFile do: a missing file leaves the defaults.
readConfig ==
    CASE configFile.kind = "absent" -> [cfg |-> Default, err |-> ""]
      [] configFile.kind # "json" -> [cfg |-> Default, err |-> "decode"]
      [] OTHER ->
            LET doc == configFile.doc
                apiOk == ~HasKey(doc, "api") \/ doc["api"].t = "obj"
                api == IF HasKey(doc, "api") /\ apiOk THEN doc["api"].v ELSE EmptyDoc
                account == stringField(doc, "active_account", Default.ActiveAccount)
                base == stringField(api, "base_url", Default.API.BaseURL)
                version == stringField(api, "notion_version", Default.API.NotionVersion)
                token == stringField(api, "token", Default.API.Token)
            IN  [cfg |-> [ActiveAccount |-> account.v,
                          API |-> [BaseURL |-> base.v, NotionVersion |-> version.v,
                                   Token |-> token.v]],
                 err |-> IF apiOk /\ account.ok /\ base.ok /\ version.ok /\ token.ok
                         THEN "" ELSE "decode"]

\* config.Load()
load(env) ==
    LET r == readConfig
    IN  IF r.err # "" THEN r
        ELSE [cfg |-> normalize(applyEnvOverrides(r.cfg, env)), err |-> ""]

\* config.LoadFile()
loadFile ==
    LET r == readConfig
    IN  IF r.err # "" THEN r ELSE [cfg |-> normalize(r.cfg), err |-> ""]

\* api.NewClient(cfg, token): the client's settings, or the error.
NewClient(api, token) ==
    LET base == IF TrimSpace(api.BaseURL) = <<>> THEN defaultBaseURL
                ELSE TrimSpace(api.BaseURL)
        version == IF TrimSpace(api.NotionVersion) = <<>> THEN defaultNotionAPIRev
                   ELSE TrimSpace(api.NotionVersion)
    IN  IF TrimSpace(token) = <<>>
        THEN [err |-> "official API token is required", client |-> <<>>]
        ELSE [err |-> "",
              client |-> [baseURL |-> TrimRight(base), notionVersion |-> version,
                          token |-> TrimSpace(token)]]

DelKey(doc, k) == [x \in DOMAIN doc \ {k} |-> doc[x]]

\* config.Save(cfg): the file it leaves, or the error it returns instead.
saveConfig(cfg) ==
    LET n == normalize(cfg)
        unreadable == configFile.kind \in {"corrupt", "torn"}
        merged == IF configFile.kind = "json" THEN DecodeMap(configFile.doc) ELSE EmptyDoc
        withAccount == IF n.ActiveAccount # <<>>
                       THEN SetKey(merged, "active_account", JStr(n.ActiveAccount))
                       ELSE merged
        existingAPI == IF HasKey(merged, "api") /\ merged["api"].t = "obj"
                       THEN merged["api"].v ELSE EmptyDoc
        settings == SetKey(SetKey(existingAPI, "base_url", JStr(n.API.BaseURL)),
                           "notion_version", JStr(n.API.NotionVersion))
        apiMap == IF n.API.Token = <<>> THEN DelKey(settings, "token")
                  ELSE SetKey(settings, "token", JStr(n.API.Token))
    IN  IF unreadable THEN [file |-> configFile, err |-> "decode"]
        ELSE [file |-> JsonFile(SetKey(withAccount, "api", JObj(apiMap))), err |-> ""]

\* config.Load() with the environment env.
Load(env) ==
    LET r == load(env)
    IN  /\ last' = Call("Load", "", <<>>, env, r.err, r.cfg)
        /\ UNCHANGED <<fsVars, stores, now, input, concVars, histVars>>

\* config.LoadFile() with the environment env.
LoadFile(env) ==
    LET r == loadFile
    IN  /\ last' = Call("LoadFile", "", <<>>, env, r.err, r.cfg)
        /\ UNCHANGED <<fsVars, stores, now, input, concVars, histVars>>

\* normalize(&cfg) of a Config whose stored base URL is the string input.
Normalize ==
    /\ last' = Call("normalize", "", <<>>, input, "",
                    normalize([Default EXCEPT !.API.BaseURL = input]))
    /\ UNCHANGED <<fsVars, stores, now, input, concVars, histVars>>

\* cli.RequireOfficialAPIClient() with the environment env.
RequireOfficialAPIClient(env) ==
    LET r == load(env)
        c == NewClient(r.cfg.API, r.cfg.API.Token)
    IN  /\ last' = IF r.err # ""
                    THEN Call("RequireOfficialAPIClient", "", <<>>, env, "load config", <<>>)
                    ELSE Call("RequireOfficialAPIClient", "", <<>>, env, c.err, c.client)
        /\ UNCHANGED <<fsVars, stores, now, input, concVars, histVars>>

\* config.Save(cfg)
Save(cfg) ==
    LET w == saveConfig(cfg)
    IN  /\ configFile' = w.file
        /\ modes' = IF w.err # "" THEN MkdirAll(modes, configDirPath, ownerDir)
                     ELSE WriteFile(MkdirAll(modes, configDirPath, ownerDir),
                                    cliConfigPath, ownerFile)
        /\ last' = Call("Save", "", <<>>, cfg, w.err, <<>>)
        /\ UNCHANGED <<accountFiles, legacyFile, dirEntries, stores, now, input, concVars,
                       histVars>>

(***************************************************************************)
(* The auth commands and the clock.                                        *)
(***************************************************************************)
\* Time passes.
Tick ==
    /\ now < MaxNow
    /\ now' = now + 1
    /\ last' = Call("Tick", "", <<>>, <<>>, "", <<>>)
    /\ UNCHANGED <<fsVars, stores, input, concVars, histVars>>

\* token.IsExpired(): a zero expiry never expires; otherwise time.Now() is
\* after the expiry.
IsExpired(token) == token.ExpiresAt # 0 /\ now > token.ExpiresAt

\* resolveAuthAccount followed by mcp.NewFileTokenStoreForAccount, as an auth
\* command opens its store: the error or the store, and the token files and
\* modes the legacy migration leaves.
openStore(account) ==
    LET r == resolveAccountNameForHome(TrimSpace(account))
        store == [account |-> r.name, path |-> accountTokenPath(r.name)]
        m == migrateLegacyDefaultIfNeeded(store)
    IN  [err |-> r.err,
         store |-> IF r.err = "" THEN store ELSE NoStore,
         files |-> IF r.err = "" /\ m.write
                   THEN [accountFiles EXCEPT ![store.account] = m.data]
                   ELSE accountFiles,
         modes |-> IF r.err = "" /\ m.write
                   THEN WriteFile(MkdirAll(modes, accountsDirectoryPath, ownerDir),
                                  store.path, ownerFile)
                   ELSE modes]

\* `auth status` for one account.  The token is read after the migration,
\* which leaves in the account's file the bytes the read would otherwise
\* have taken from the legacy file.
AuthStatus(account) ==
    LET o == openStore(account)
        r == readStoredTokenUnlocked(o.store)
        token == tokenOf(r.stored)
        none == [authenticated |-> FALSE, has_token |-> FALSE]
    IN  /\ accountFiles' = o.files
        /\ modes' = o.modes
        /\ last' = IF o.err # "" THEN Call("AuthStatus", "", <<>>, account, o.err, none)
                    ELSE IF r.err = "ErrNoToken"
                    THEN Call("AuthStatus", "", o.store.account, account, "", none)
                    ELSE IF r.err # ""
                    THEN Call("AuthStatus", "", o.store.account, account, r.err, none)
                    ELSE Call("AuthStatus", "", o.store.account, account, "",
                              [authenticated |-> token.AccessToken # "" /\ ~IsExpired(token),
                               has_token |-> token.AccessToken # ""])
        /\ UNCHANGED <<legacyFile, configFile, dirEntries, stores, now, input, concVars,
                       histVars>>

\* What the refresh exchange may answer: a failure, or a token.
RefreshOutcomes == {[ok |-> FALSE, token |-> tokenOf(zeroStoredToken)]}
                        \cup {[ok |-> TRUE, token |-> t] : t \in Tokens}

\* A command that asks for a refresh without looking at the refresh token.
refreshPreconditionTokenOnly(r) == r.err
\* The error `auth refresh` returns before it calls mcp.RefreshToken, "" when
\* it goes on to call it; r is what GetToken read.
refreshPrecondition(r) ==
    IF r.err # "" THEN r.err
    ELSE IF r.stored.RefreshToken = "" THEN "no refresh token"
    ELSE ""

\* `auth refresh`: mcp.RefreshToken runs the refresh exchange and saves the
\* token it answers through the store's SaveToken.
AuthRefresh(account, outcome) ==
    LET o == openStore(account)
        r == readStoredTokenUnlocked(o.store)
        pre == refreshPrecondition(r)
        exchanged == o.err = "" /\ pre = ""
        saved == exchanged /\ outcome.ok
        stored == storedForSave(outcome.token, r.stored)
        a == o.store.account
    IN  /\ accountFiles' = IF saved
                            THEN [o.files EXCEPT ![a] = JsonFile(MarshalStoredToken(stored))]
                            ELSE o.files
        /\ modes' = IF saved
                     THEN WriteFile(MkdirAll(o.modes, accountsDirectoryPath, ownerDir),
                                    o.store.path, ownerFile)
                     ELSE o.modes
        /\ savedToken' = IF saved
                          THEN [savedToken EXCEPT ![a] = [saved |-> TRUE, token |-> outcome.token]]
                          ELSE savedToken
        /\ savedClient' = IF saved /\ savedClient[a].id # NoClient
                           THEN [savedClient EXCEPT ![a].tokenSavedSince = TRUE]
                           ELSE savedClient
        /\ clearedAll' = (clearedAll /\ ~saved)
        /\ last' = IF o.err # ""
                    THEN Call("AuthRefresh", "", <<>>, account, o.err, [exchanged |-> FALSE])
                    ELSE Call("AuthRefresh", "", a, account,
                              IF pre # "" THEN pre
                              ELSE IF outcome.ok THEN "" ELSE "refresh failed",
                              [exchanged |-> exchanged])
        /\ UNCHANGED <<legacyFile, configFile, dirEntries, stores, now, input, concVars,
                       lastSet, initialConfig>>

\* mcp.SetActiveAccount(name) for a name that has passed validation: the
\* config.json it leaves, or the error it returns instead.
setActive(name) ==
    LET cfg == readCLIConfig
        w == writeCLIConfig([ActiveAccount |-> name])
    IN  IF cfg.err # "" THEN [file |-> configFile, err |-> cfg.err] ELSE w

\* A logout that leaves the active account as it is.
logoutKeepsActive(active, account) == FALSE
\* `auth logout`: whether it resets the active account to default.
logoutResetsActive(active, account) == active = account

AllTokenPaths ==
    {accountsDirectoryPath, legacyTokenPath} \cup {accountTokenPath(a) : a \in AccountPool}

\* `auth logout [--all]` with the --account flag given (or empty).
AuthLogout(all, account) ==
    \E o \in {openStore(account)}, active \in {resolveAccountNameForHome(<<>>)},
       set \in {setActive(defaultAccount)} :
    LET reject == all /\ account # <<>>
        gone == clearPaths(o.store)
        resets == active.err = "" /\ logoutResetsActive(active.name, o.store.account)
        err == CASE reject -> "--all cannot be used with --account"
                 [] all -> set.err
                 [] o.err # "" -> o.err
                 [] active.err # "" -> active.err
                 [] resets -> set.err
                 [] OTHER -> ""
        clears == ~reject /\ ~all /\ o.err = ""
        sets == err = "" /\ (all \/ resets)
        removed == CASE reject -> modes
                     [] all -> removeAll(modes, AllTokenPaths)
                     [] clears -> removeAll(o.modes, gone)
                     [] OTHER -> modes
    IN  /\ accountFiles' = CASE reject -> accountFiles
                             [] all -> [a \in AccountPool |-> Absent]
                             [] clears -> [a \in AccountPool |->
                                            IF accountTokenPath(a) \in gone THEN Absent
                                            ELSE o.files[a]]
                             [] OTHER -> accountFiles
        /\ legacyFile' = IF ~reject /\ (all \/ (clears /\ legacyTokenPath \in gone))
                          THEN Absent ELSE legacyFile
        /\ dirEntries' = IF all /\ ~reject THEN {} ELSE dirEntries
        /\ configFile' = IF sets THEN set.file ELSE configFile
        /\ modes' = IF sets
                     THEN WriteFile(MkdirAll(removed, configDirPath, ownerDir),
                                    cliConfigPath, ownerFile)
                     ELSE removed
        /\ savedClient' = [a \in AccountPool |->
                                IF (all /\ ~reject) \/ (clears /\ a = o.store.account)
                                THEN NoSavedClient ELSE savedClient[a]]
        /\ savedToken' = [a \in AccountPool |->
                                IF (all /\ ~reject) \/ (clears /\ a = o.store.account)
                                THEN NoSavedToken ELSE savedToken[a]]
        /\ clearedAll' = IF all /\ ~reject THEN TRUE ELSE clearedAll
        /\ lastSet' = IF sets THEN [ok |-> TRUE, arg |-> defaultAccount] ELSE lastSet
        /\ last' = Call("AuthLogout", "", IF clears THEN o.store.account ELSE <<>>,
                        [all |-> all, account |-> account], err, <<>>)
        /\ UNCHANGED <<stores, now, input, concVars, initialConfig>>

\* `auth use <account>`
AuthUse(account) ==
    LET r == resolveAccountNameForHome(TrimSpace(account))
        set == setActive(r.name)
        err == IF r.err # "" THEN r.err ELSE set.err
    IN  /\ configFile' = IF err # "" THEN configFile ELSE set.file
        /\ modes' = IF err # "" THEN modes
                     ELSE WriteFile(MkdirAll(modes, configDirPath, ownerDir),
                                    cliConfigPath, ownerFile)
        /\ lastSet' = IF err # "" THEN lastSet ELSE [ok |-> TRUE, arg |-> r.name]
        /\ last' = Call("AuthUse", "", IF r.err = "" THEN r.name ELSE <<>>, account, err, <<>>)
        /\ UNCHANGED <<accountFiles, legacyFile, dirEntries, stores, now, input, concVars,
                       savedClient, initialConfig, savedToken, clearedAll>>

\* `auth login`: the store is opened, mcp.RunOAuthFlow either fails or saves
\* the token it obtained through the store's SaveToken, and the account
\* becomes the active one.
AuthLogin(account, token, granted) ==
    \E o \in {openStore(account)} :
    \E r \in {IF o.err = "" THEN readStoredTokenUnlocked(o.store)
               ELSE [stored |-> zeroStoredToken, err |-> o.err]},
       set \in {IF o.err = "" THEN setActive(o.store.account)
                 ELSE [file |-> configFile, err |-> o.err]} :
    LET readErr == IF r.err \notin {"", "ErrNoToken"} THEN r.err ELSE ""
        existing == IF r.err = "" THEN r.stored ELSE zeroStoredToken
        saved == o.err = "" /\ granted /\ readErr = ""
        a == o.store.account
        err == CASE o.err # "" -> o.err
                 [] ~granted -> "authorization failed"
                 [] readErr # "" -> readErr
                 [] OTHER -> set.err
    IN  /\ accountFiles' = IF saved
                            THEN [o.files EXCEPT
                                    ![a] = JsonFile(MarshalStoredToken(storedForSave(token, existing)))]
                            ELSE o.files
        /\ configFile' = IF err = "" THEN set.file ELSE configFile
        /\ modes' = LET written == IF saved
                                   THEN WriteFile(MkdirAll(o.modes, accountsDirectoryPath,
                                                           ownerDir), o.store.path, ownerFile)
                                   ELSE o.modes
                    IN  IF err = ""
                        THEN WriteFile(MkdirAll(written, configDirPath, ownerDir),
                                       cliConfigPath, ownerFile)
                        ELSE written
        /\ savedToken' = IF saved
                          THEN [savedToken EXCEPT ![a] = [saved |-> TRUE, token |-> token]]
                          ELSE savedToken
        /\ savedClient' = IF saved /\ savedClient[a].id # NoClient
                           THEN [savedClient EXCEPT ![a].tokenSavedSince = TRUE]
                           ELSE savedClient
        /\ clearedAll' = (clearedAll /\ ~saved)
        /\ lastSet' = IF err = "" THEN [ok |-> TRUE, arg |-> a] ELSE lastSet
        /\ last' = Call("AuthLogin", "", IF o.err = "" THEN a ELSE <<>>, account, err, <<>>)
        /\ UNCHANGED <<legacyFile, dirEntries, stores, now, input, concVars, initialConfig>>

(***************************************************************************)
(* The store operations step by step, for goroutines that run them at the  *)
(* same time.  Every instance is constructed for the account of            *)
(* stores["s1"]; instances differ in their lock.  A step takes one system  *)
(* call or one lock operation.                                             *)
(***************************************************************************)
IsRead(op) == op \in {"GetToken", "GetClientID"}

\* A goroutine calls an operation of an instance with a live context.
Begin(p, inst, op, token, clientID) ==
    /\ procs[p].pc = "idle"
    /\ stores["s1"] # NoStore
    /\ procs' = [procs EXCEPT ![p] = [IdleProc EXCEPT !.op = op, !.pc = "lock", !.inst = inst,
                                                       !.token = token, !.clientID = clientID]]
    /\ UNCHANGED <<fsVars, stores, mu, now, input, last, histVars>>

\* sync.RWMutex: RLock waits for the writer, Lock for the writer and the readers.
canRLock(m) == m.writer = NoProc
\* A Lock that does not wait for readers.
canLockBesideReaders(m) == m.writer = NoProc
canLock(m) == m.writer = NoProc /\ m.readers = {}

\* s.mu.RLock() in GetToken and GetClientID, s.mu.Lock() in the others.
Acquire(p) ==
    LET q == procs[p]
        m == mu[q.inst]
    IN  /\ q.pc = "lock"
        /\ IF IsRead(q.op)
           THEN canRLock(m) /\ mu' = [mu EXCEPT ![q.inst].readers = @ \cup {p}]
           ELSE canLock(m) /\ mu' = [mu EXCEPT ![q.inst].writer = p]
        /\ procs' = [procs EXCEPT ![p].pc = CASE IsRead(q.op) -> "read"
                                               [] q.op = "Clear" -> "remove"
                                               [] OTHER -> "mkdir"]
        /\ UNCHANGED <<fsVars, stores, now, input, last, histVars>>

\* os.MkdirAll(filepath.Dir(s.path), 0700) of SaveToken and SaveClientID.
MkdirStep(p) ==
    /\ procs[p].pc = "mkdir"
    /\ modes' = MkdirAll(modes, accountsDirectoryPath, ownerDir)
    /\ procs' = [procs EXCEPT ![p].pc = "read"]
    /\ UNCHANGED <<accountFiles, legacyFile, configFile, dirEntries, stores, mu, now, input,
                   last, histVars>>

\* s.readStoredTokenUnlocked(): a read returns what it found; a save goes on
\* to marshal the record it will write, or returns the read error.
ReadStep(p) ==
    LET q == procs[p]
        s == stores["s1"]
        r == readStoredTokenUnlocked(s)
        existing == IF r.err = "" THEN r.stored ELSE zeroStoredToken
        failed == r.err \notin {"", "ErrNoToken"}
        stored == IF q.op = "SaveToken" THEN storedForSave(q.token, existing)
                  ELSE storedForClientID(q.clientID, existing)
    IN  /\ q.pc = "read"
        /\ procs' = [procs EXCEPT ![p] =
                        IF IsRead(q.op) THEN [q EXCEPT !.pc = "unlock"]
                        ELSE IF failed THEN [q EXCEPT !.pc = "unlock", !.err = r.err]
                        ELSE [q EXCEPT !.pc = "open", !.data = MarshalStoredToken(stored)]]
        /\ last' = CASE q.op = "GetToken" ->
                            Call("GetToken", p, s.account, FALSE, r.err,
                                 [token |-> tokenOf(r.stored), reads |-> r.reads])
                      [] q.op = "GetClientID" ->
                            Call("GetClientID", p, s.account, FALSE,
                                 IF r.err = "ErrNoToken" THEN "" ELSE r.err, r.stored.ClientID)
                      [] failed -> Call(q.op, p, s.account, <<>>, r.err, <<>>)
                      [] OTHER -> last
        /\ UNCHANGED <<fsVars, stores, mu, now, input, histVars>>

\* os.WriteFile, first half: OpenFile with O_CREATE and O_TRUNC.
OpenStep(p) ==
    LET s == stores["s1"]
    IN  /\ procs[p].pc = "open"
        /\ accountFiles' = [accountFiles EXCEPT ![s.account] = Truncated]
        /\ modes' = WriteFile(modes, s.path, ownerFile)
        /\ procs' = [procs EXCEPT ![p].pc = "write"]
        /\ UNCHANGED <<legacyFile, configFile, dirEntries, stores, mu, now, input, last,
                       histVars>>

\* os.WriteFile, second half: Write and Close.  The save has taken effect.
WriteStep(p) ==
    LET q == procs[p]
        s == stores["s1"]
    IN  /\ q.pc = "write"
        /\ accountFiles' = [accountFiles EXCEPT ![s.account] = writeAtStart(q.data, @)]
        /\ procs' = [procs EXCEPT ![p].pc = "unlock"]
        /\ last' = Call(q.op, p, s.account, <<>>, "", <<>>)
        /\ savedToken' = IF q.op = "SaveToken"
                          THEN [savedToken EXCEPT
                                    ![s.account] = [saved |-> TRUE, token |-> q.token]]
                          ELSE savedToken
        /\ savedClient' = IF q.op = "SaveClientID"
                           THEN [savedClient EXCEPT
                                    ![s.account] = [id |-> q.clientID,
                                                    tokenSavedSince |-> FALSE]]
                           ELSE IF savedClient[s.account].id = NoClient THEN savedClient
                           ELSE [savedClient EXCEPT ![s.account].tokenSavedSince = TRUE]
        /\ clearedAll' = FALSE
        /\ UNCHANGED <<legacyFile, configFile, dirEntries, modes, stores, mu, now, input,
                       lastSet, initialConfig>>

\* The os.Remove calls of Clear.
RemoveStep(p) ==
    LET s == stores["s1"]
        gone == clearPaths(s)
    IN  /\ procs[p].pc = "remove"
        /\ accountFiles' = [a \in AccountPool |->
                                IF accountTokenPath(a) \in gone THEN Absent
                                ELSE accountFiles[a]]
        /\ legacyFile' = IF legacyTokenPath \in gone THEN Absent ELSE legacyFile
        /\ modes' = removeAll(modes, gone)
        /\ procs' = [procs EXCEPT ![p].pc = "unlock"]
        /\ savedClient' = [savedClient EXCEPT ![s.account] = NoSavedClient]
        /\ savedToken' = [savedToken EXCEPT ![s.account] = NoSavedToken]
        /\ last' = Call("Clear", p, s.account, <<>>, "", <<>>)
        /\ UNCHANGED <<configFile, dirEntries, stores, mu, now, input, lastSet,
                       initialConfig, clearedAll>>

\* The deferred s.mu.RUnlock() or s.mu.Unlock(); the call returns.
Release(p) ==
    LET q == procs[p]
    IN  /\ q.pc = "unlock"
        /\ mu' = IF IsRead(q.op) THEN [mu EXCEPT ![q.inst].readers = @ \ {p}]
                  ELSE [mu EXCEPT ![q.inst].writer = NoProc]
        /\ procs' = [procs EXCEPT ![p].pc = "done"]
        /\ UNCHANGED <<fsVars, stores, now, input, last, histVars>>

\* `auth api setup` (a token given, verification skipped) and `auth api
\* unset` (no token) step by step, in a process of its own.  First
\* config.Load and config.LoadFile; the command keeps the Config it will save.
AuthAPILoad(p, token, env) ==
    LET effective == load(env)
        file == loadFile
        cfg == IF token = <<>> THEN [file.cfg EXCEPT !.API.Token = <<>>]
               ELSE [file.cfg EXCEPT !.API.BaseURL = effective.cfg.API.BaseURL,
                                     !.API.NotionVersion = effective.cfg.API.NotionVersion,
                                     !.API.Token = token]
    IN  /\ procs[p].pc = "idle"
        /\ procs' = [procs EXCEPT
                        ![p] = IF file.err # ""
                               THEN [IdleProc EXCEPT !.op = "auth api", !.pc = "done",
                                                     !.err = file.err]
                               ELSE [IdleProc EXCEPT !.op = "auth api", !.pc = "save",
                                                     !.data = cfg]]
        /\ UNCHANGED <<fsVars, stores, mu, now, input, last, histVars>>

\* Then config.Save of that Config; the command returns.
AuthAPISave(p) ==
    LET w == saveConfig(procs[p].data)
    IN  /\ procs[p].op = "auth api"
        /\ procs[p].pc = "save"
        /\ configFile' = w.file
        /\ modes' = IF w.err # "" THEN MkdirAll(modes, configDirPath, ownerDir)
                     ELSE WriteFile(MkdirAll(modes, configDirPath, ownerDir),
                                    cliConfigPath, ownerFile)
        /\ procs' = [procs EXCEPT ![p].pc = "done", ![p].err = w.err]
        /\ last' = Call("Save", p, <<>>, procs[p].data, w.err, <<>>)
        /\ UNCHANGED <<accountFiles, legacyFile, dirEntries, stores, mu, now, input, histVars>>

\* migrateLegacyDefaultIfNeeded step by step, in a process constructing a
\* store of stores["s1"]'s account; it takes no lock.  First the account
\* test and os.Stat(s.path).
MigrateStat(p) ==
    LET s == stores["s1"]
        needed == s.account = defaultAccount /\ FileAt(s.path).kind = "absent"
    IN  /\ procs[p].pc = "idle"
        /\ procs' = [procs EXCEPT
                        ![p] = [IdleProc EXCEPT !.op = "migrateLegacyDefaultIfNeeded",
                                                !.pc = IF needed THEN "readLegacy" ELSE "done"]]
        /\ UNCHANGED <<fsVars, stores, mu, now, input, last, histVars>>

\* os.ReadFile(legacyPath)
MigrateRead(p) ==
    /\ procs[p].pc = "readLegacy"
    /\ procs' = IF legacyFile.kind = "absent" THEN [procs EXCEPT ![p].pc = "done"]
                ELSE [procs EXCEPT ![p].pc = "writeLegacy", ![p].data = legacyFile]
    /\ UNCHANGED <<fsVars, stores, mu, now, input, last, histVars>>

\* os.MkdirAll and os.WriteFile(s.path, legacyData, 0600); the migration returns.
MigrateWrite(p) ==
    LET s == stores["s1"]
    IN  /\ procs[p].pc = "writeLegacy"
        /\ accountFiles' = [accountFiles EXCEPT ![s.account] = procs[p].data]
        /\ modes' = WriteFile(MkdirAll(modes, accountsDirectoryPath, ownerDir),
                              s.path, ownerFile)
        /\ procs' = [procs EXCEPT ![p].pc = "done"]
        /\ last' = Call("migrateLegacyDefaultIfNeeded", p, s.account, <<>>, "", <<>>)
        /\ UNCHANGED <<legacyFile, configFile, dirEntries, stores, mu, now, input, histVars>>

(***************************************************************************)
(* The upload-status poll of the REST client, step by step: a goroutine    *)
(* whose locals are the loop counter, the status requests it has issued,   *)
(* the last status it read and whether its context is done.                *)
(***************************************************************************)
maxChecks == 20

\* What GetFileUpload may answer: a transport or API error, or an upload
\* with a status as the server spells it.
PollResponses ==
    {[err |-> "request failed", status |-> ""]}
        \cup {[err |-> "", status |-> raw] :
                    raw \in {"", "uploaded", "Uploaded ", "pending", "failed"}}

\* strings.ToLower(strings.TrimSpace(upload.Status)) on those spellings.
lowerTrimmed(raw) == IF raw = "Uploaded " THEN "uploaded" ELSE raw

PollLocals(i, requests, status, ctxDone) ==
    [i |-> i, requests |-> requests, status |-> status, ctxDone |-> ctxDone]

\* The return of the poll: the goroutine is done and the call is recorded.
PollReturn(p, locals, err) ==
    /\ procs' = [procs EXCEPT ![p].pc = "done", ![p].data = locals, ![p].err = err]
    /\ last' = Call("waitForFileUploadUploaded", p, <<>>, <<>>, err, locals)

\* c.waitForFileUploadUploaded(ctx, fileUploadID) is called.
waitForFileUploadUploaded(p, fileUploadID) ==
    /\ procs[p].pc = "idle"
    /\ IF TrimSpace(fileUploadID) = <<>>
       THEN PollReturn(p, PollLocals(0, 0, "", FALSE), "file upload ID is required")
       ELSE /\ procs' = [procs EXCEPT
                            ![p] = [IdleProc EXCEPT !.op = "waitForFileUploadUploaded",
                                                    !.pc = "get",
                                                    !.data = PollLocals(0, 0, "", FALSE)]]
            /\ UNCHANGED last
    /\ UNCHANGED <<fsVars, stores, mu, now, input, histVars>>

\* The context is cancelled, or its deadline passes, while the poll runs.
CancelContext(p) ==
    /\ procs[p].op = "waitForFileUploadUploaded"
    /\ procs[p].pc \in {"get", "select"}
    /\ ~procs[p].data.ctxDone
    /\ procs' = [procs EXCEPT ![p].data.ctxDone = TRUE]
    /\ UNCHANGED <<fsVars, stores, mu, now, input, last, histVars>>

\* One turn of the loop up to the select: c.GetFileUpload(ctx, id) and the
\* switch on the status.  With a context already done the HTTP client
\* returns the context's error and sends nothing.
GetFileUploadStep(p, response) ==
    LET l == procs[p].data
        asked == [l EXCEPT !.requests = @ + 1, !.status = response.status]
        status == lowerTrimmed(response.status)
    IN  /\ procs[p].op = "waitForFileUploadUploaded"
        /\ procs[p].pc = "get"
        /\ CASE l.ctxDone -> PollReturn(p, l, "context canceled")
             [] response.err # "" -> PollReturn(p, asked, response.err)
             [] status \in {"", "uploaded"} -> PollReturn(p, asked, "")
             [] status = "pending" /\ l.i = maxChecks - 1 ->
                    PollReturn(p, asked, "did not reach uploaded status in time")
             [] status = "pending" ->
                    /\ procs' = [procs EXCEPT ![p].pc = "select", ![p].data = asked]
                    /\ UNCHANGED last
             [] OTHER -> PollReturn(p, asked, "failed with status")
        /\ UNCHANGED <<fsVars, stores, mu, now, input, histVars>>

\* A select that waits for the timer alone.
SelectStepIgnoringContext(p) ==
    LET l == procs[p].data
    IN  /\ procs[p].op = "waitForFileUploadUploaded"
        /\ procs[p].pc = "select"
        /\ procs' = [procs EXCEPT ![p].pc = "get", ![p].data.i = @ + 1]
        /\ UNCHANGED <<fsVars, stores, mu, now, input, last, histVars>>
\* The select between ctx.Done() and time.After: whichever comes first
\* decides, and a context done before the timer fires is the first.  Then
\* i++ and the loop test.
SelectStep(p) ==
    LET l == procs[p].data
    IN  /\ procs[p].op = "waitForFileUploadUploaded"
        /\ procs[p].pc = "select"
        /\ IF l.ctxDone THEN PollReturn(p, l, "context canceled")
           ELSE IF l.i + 1 < maxChecks
           THEN /\ procs' = [procs EXCEPT ![p].pc = "get", ![p].data.i = @ + 1]
                /\ UNCHANGED last
           ELSE PollReturn(p, l, "did not reach uploaded status in time")
        /\ UNCHANGED <<fsVars, stores, mu, now, input, histVars>>

(***************************************************************************)
(* Specifications.                                                         *)
(***************************************************************************)
\* The token store, starting from a home directory an older release may have
\* used: a legacy token file may exist; config.json is missing, so the active
\* account is default (SpecConfig varies the config document).
Init ==
    /\ accountFiles = [a \in AccountPool |-> Absent]
    /\ legacyFile \in {Absent, JsonFile(LegacyDoc1)}
    /\ configFile = Absent
    /\ stores = [id \in StoreIds |-> NoStore]
    /\ now = 1
    /\ input = <<>>
    /\ last = NoCall
    /\ savedClient = [a \in AccountPool |-> NoSavedClient]
    /\ lastSet = [ok |-> FALSE, arg |-> <<>>]
    /\ initialConfig = configFile
    /\ dirEntries = {}
    /\ modes = modesOf(accountFiles, legacyFile, configFile, dirEntries, ownerFile, ownerDir)
    /\ procs = [p \in ProcIds |-> IdleProc]
    /\ mu = [i \in InstIds |-> Unlocked]
    /\ savedToken = [a \in AccountPool |-> NoSavedToken]
    /\ clearedAll = FALSE

Next ==
    \/ \E id \in StoreIds, account \in NameInputs : NewFileTokenStoreForAccount(id, account)
    \/ \E id \in StoreIds, cancelled \in BOOLEAN : GetToken(id, cancelled)
    \/ \E id \in StoreIds, cancelled \in BOOLEAN : GetClientID(id, cancelled)
    \/ \E id \in StoreIds, cancelled \in BOOLEAN, token \in Tokens :
            SaveToken(id, cancelled, token)
    \/ \E id \in StoreIds, cancelled \in BOOLEAN, clientID \in ClientIDs :
            SaveClientID(id, cancelled, clientID)
    \/ \E id \in StoreIds : Clear(id)
    \/ ClearAllTokens
    \/ \E content \in {JsonFile(LegacyDoc2), Corrupt} :
            EditLegacyFile(content)
    \/ \E account \in AccountPool : DamageTokenFile(account)

Spec == Init /\ [][Next]_vars

\* ValidateAccountName as a pure function of every string up to MaxLen.
InitValidate ==
    /\ accountFiles = [a \in AccountPool |-> Absent]
    /\ legacyFile = Absent
    /\ configFile = Absent
    /\ stores = [id \in StoreIds |-> NoStore]
    /\ now = 1
    /\ input \in Strings
    /\ last = NoCall
    /\ savedClient = [a \in AccountPool |-> NoSavedClient]
    /\ lastSet = [ok |-> FALSE, arg |-> <<>>]
    /\ initialConfig = configFile
    /\ dirEntries = {}
    /\ modes = modesOf(accountFiles, legacyFile, configFile, dirEntries, ownerFile, ownerDir)
    /\ procs = [p \in ProcIds |-> IdleProc]
    /\ mu = [i \in InstIds |-> Unlocked]
    /\ savedToken = [a \in AccountPool |-> NoSavedToken]
    /\ clearedAll = FALSE

NextValidate == Validate

SpecValidate == InitValidate /\ [][NextValidate]_vars

\* normalize as a pure function of every base URL up to MaxLen, stored in the
\* Config or supplied by NOTION_API_BASE_URL to a Load without config.json.
NextNormalize ==
    \/ Normalize
    \/ Load([NoEnv EXCEPT !.NOTION_API_BASE_URL = input])

SpecNormalize == InitValidate /\ [][NextNormalize]_vars

\* The config document: config.json may be missing, unreadable, or any JSON
\* object another subsystem or a hand edit left; the legacy token file may exist.
bigInteger == JNum(2^26, 1)     \* 2^53 + 1
ConfigDocs ==
    { a @@ b @@ c :
        a \in {EmptyDoc} \cup {("active_account" :> JStr(n)) :
                                  n \in {workAccount, paddedWork, invalidName}},
        b \in {EmptyDoc,
                ("api" :> JObj(("base_url" :> JStr("u")) @@ ("require_icon" :> JBool(TRUE))))},
        c \in {EmptyDoc, ("quota" :> JNum(0, 7)), ("quota" :> bigInteger)} }

InitConfig ==
    /\ accountFiles = [a \in AccountPool |-> Absent]
    /\ legacyFile \in {Absent, JsonFile(LegacyDoc1)}
    /\ configFile \in {Absent, Corrupt} \cup {JsonFile(d) : d \in ConfigDocs}
    /\ stores = [id \in StoreIds |-> NoStore]
    /\ now = 1
    /\ input = <<>>
    /\ last = NoCall
    /\ savedClient = [a \in AccountPool |-> NoSavedClient]
    /\ lastSet = [ok |-> FALSE, arg |-> <<>>]
    /\ initialConfig = configFile
    /\ dirEntries = {}
    /\ modes = modesOf(accountFiles, legacyFile, configFile, dirEntries, ownerFile, ownerDir)
    /\ procs = [p \in ProcIds |-> IdleProc]
    /\ mu = [i \in InstIds |-> Unlocked]
    /\ savedToken = [a \in AccountPool |-> NoSavedToken]
    /\ clearedAll = FALSE

NextConfig ==
    \/ \E account \in NameInputs : SetActiveAccount(account)
    \/ \E account \in NameInputs : ResolveAccountName(account)
    \/ GetActiveAccount
    \/ \E id \in StoreIds, account \in NameInputs : NewFileTokenStoreForAccount(id, account)
    \/ ListAccounts

SpecConfig == InitConfig /\ [][NextConfig]_vars

\* Account enumeration over a populated accounts directory.
InitList ==
    /\ accountFiles \in [AccountPool -> {Absent, JsonFile(LegacyDoc2)}]
    /\ legacyFile \in {Absent, JsonFile(LegacyDoc1)}
    /\ configFile \in {Absent, Corrupt}
            \cup {JsonFile("active_account" :> JStr(n)) :
                        n \in {teamAccount, workAccount, invalidName}}
    /\ dirEntries \in SUBSET ExtraEntries
    /\ modes = modesOf(accountFiles, legacyFile, configFile, dirEntries, ownerFile, ownerDir)
    /\ stores = [id \in StoreIds |-> NoStore]
    /\ procs = [p \in ProcIds |-> IdleProc]
    /\ mu = [i \in InstIds |-> Unlocked]
    /\ now = 1
    /\ input = <<>>
    /\ last = NoCall
    /\ savedClient = [a \in AccountPool |-> NoSavedClient]
    /\ lastSet = [ok |-> FALSE, arg |-> <<>>]
    /\ initialConfig = configFile
    /\ savedToken = [a \in AccountPool |-> NoSavedToken]
    /\ clearedAll = FALSE

NextList ==
    \/ ListAccounts
    \/ ClearAllTokens

SpecList == InitList /\ [][NextList]_vars

\* The instance NewFileTokenStoreForAccount("work") returns.
workStore == [account |-> workAccount, path |-> accountTokenPath(workAccount)]

\* Goroutines of one process sharing one FileTokenStore of account work, each
\* making one call; the account's file may exist already.
InitLock ==
    /\ accountFiles \in {[a \in AccountPool |-> IF a = workAccount THEN f ELSE Absent] :
                            f \in {Absent, JsonFile(LegacyDoc1)}}
    /\ legacyFile = Absent
    /\ configFile = Absent
    /\ dirEntries = {}
    /\ modes = modesOf(accountFiles, legacyFile, configFile, dirEntries, ownerFile, ownerDir)
    /\ stores = [id \in StoreIds |-> workStore]
    /\ procs = [p \in ProcIds |-> IdleProc]
    /\ mu = [i \in InstIds |-> Unlocked]
    /\ now = 1
    /\ input = <<>>
    /\ last = NoCall
    /\ savedClient = [a \in AccountPool |-> NoSavedClient]
    /\ lastSet = [ok |-> FALSE, arg |-> <<>>]
    /\ initialConfig = configFile
    /\ savedToken = [a \in AccountPool |-> NoSavedToken]
    /\ clearedAll = FALSE

Steps(p) ==
    \/ Acquire(p)
    \/ MkdirStep(p)
    \/ ReadStep(p)
    \/ OpenStep(p)
    \/ WriteStep(p)
    \/ RemoveStep(p)
    \/ Release(p)

NextLock ==
    \/ \E p \in ProcIds,
          op \in {"GetToken", "GetClientID", "SaveToken", "SaveClientID", "Clear"} :
            Begin(p, "i1", op, Token1, "C1")
    \/ \E p \in ProcIds : Steps(p)

SpecLock == InitLock /\ [][NextLock]_vars

\* Two CLI processes, each with its own FileTokenStore of account work (p1
\* uses instance i1, p2 instance i2), each saving a token or a client id.
instanceOf == [p \in {"p1", "p2"} |-> IF p = "p1" THEN "i1" ELSE "i2"]

NextProcesses ==
    \/ \E p \in DOMAIN instanceOf, op \in {"SaveToken", "SaveClientID"},
          token \in Tokens, clientID \in ClientIDs :
            Begin(p, instanceOf[p], op, token, clientID)
    \/ \E p \in DOMAIN instanceOf :
            \/ Acquire(p)
            \/ MkdirStep(p)
            \/ ReadStep(p)
            \/ OpenStep(p)
            \/ WriteStep(p)
            \/ Release(p)

SpecProcesses == InitLock /\ [][NextProcesses]_vars

\* Logging out of every account: a home directory with any of the token
\* files, a stray file in the accounts directory and an active account.
InitClearAll ==
    /\ accountFiles \in [AccountPool -> {Absent, JsonFile(LegacyDoc2)}]
    /\ legacyFile \in {Absent, JsonFile(LegacyDoc1)}
    /\ configFile \in {Absent, JsonFile("active_account" :> JStr(workAccount))}
    /\ dirEntries \in {{}, {[name |-> personalAccount \o jsonSuffix, isDir |-> FALSE]}}
    /\ modes = modesOf(accountFiles, legacyFile, configFile, dirEntries, ownerFile, ownerDir)
    /\ stores = [id \in StoreIds |-> NoStore]
    /\ procs = [p \in ProcIds |-> IdleProc]
    /\ mu = [i \in InstIds |-> Unlocked]
    /\ now = 1
    /\ input = <<>>
    /\ last = NoCall
    /\ savedClient = [a \in AccountPool |-> NoSavedClient]
    /\ lastSet = [ok |-> FALSE, arg |-> <<>>]
    /\ initialConfig = configFile
    /\ savedToken = [a \in AccountPool |-> NoSavedToken]
    /\ clearedAll = FALSE

NextClearAll ==
    \/ ClearAllTokens
    \/ \E id \in StoreIds, account \in {<<>>, defaultAccount, workAccount} :
            NewFileTokenStoreForAccount(id, account)
    \/ \E id \in StoreIds : GetToken(id, FALSE)
    \/ \E id \in StoreIds : SaveToken(id, FALSE, Token1)
    \/ \E id \in StoreIds : SaveClientID(id, FALSE, "C1")
    \/ ListAccounts

SpecClearAll == InitClearAll /\ [][NextClearAll]_vars

\* Writes into a home directory that may come from elsewhere (an older
\* release, a restored backup, a hand-made file): its files and directories
\* are either all owner-only or all created under a plain umask.
InitPerm ==
    /\ accountFiles \in [AccountPool -> {Absent, JsonFile(LegacyDoc2)}]
    /\ legacyFile \in {Absent, JsonFile(LegacyDoc1)}
    /\ configFile \in {Absent, JsonFile("active_account" :> JStr(workAccount))}
    /\ dirEntries = {}
    /\ \E fileMode \in {ownerFile, wideFile}, dirMode \in {ownerDir, wideDir} :
            modes = modesOf(accountFiles, legacyFile, configFile, dirEntries,
                            fileMode, dirMode)
    /\ stores = [id \in StoreIds |-> NoStore]
    /\ procs = [p \in ProcIds |-> IdleProc]
    /\ mu = [i \in InstIds |-> Unlocked]
    /\ now = 1
    /\ input = <<>>
    /\ last = NoCall
    /\ savedClient = [a \in AccountPool |-> NoSavedClient]
    /\ lastSet = [ok |-> FALSE, arg |-> <<>>]
    /\ initialConfig = configFile
    /\ savedToken = [a \in AccountPool |-> NoSavedToken]
    /\ clearedAll = FALSE

NextPerm ==
    \/ \E id \in StoreIds, account \in {<<>>, defaultAccount, workAccount} :
            NewFileTokenStoreForAccount(id, account)
    \/ \E id \in StoreIds : SaveToken(id, FALSE, Token1)
    \/ \E id \in StoreIds : SaveClientID(id, FALSE, "C1")
    \/ \E account \in {defaultAccount, workAccount} : SetActiveAccount(account)

SpecPerm == InitPerm /\ [][NextPerm]_vars

\* The official-API configuration: config.json as a setup, a hand edit or
\* another subsystem left it, read under several environments and saved to.
oldToken == <<"o">>
Envs ==
    {[NoEnv EXCEPT !.NOTION_API_TOKEN = t, !.NOTION_API_BASE_URL = b] :
        t \in {<<>>, <<"e">>, <<" ">>}, b \in {<<>>, <<"a", "/">>}}
APISections ==
    {("token" :> JStr(oldToken)),
     ("token" :> JStr(<<>>)),
     ("token" :> JNum(0, 7)),
     ("base_url" :> JStr(<<"a", "/">>)) @@ ("notion_version" :> JStr(defaultNotionAPIRev))
        @@ ("token" :> JStr(oldToken)) @@ ("require_icon" :> JBool(TRUE))}
APIConfigDocs ==
    { a @@ b @@ c :
        a \in {EmptyDoc, ("active_account" :> JStr(workAccount))},
        b \in {EmptyDoc} \cup {("api" :> JObj(section)) : section \in APISections},
        c \in {EmptyDoc, ("custom" :> JObj("keep" :> JStr(<<"v">>))), ("quota" :> bigInteger)} }
SaveInputs ==
    {[ActiveAccount |-> a, API |-> [BaseURL |-> b, NotionVersion |-> defaultNotionAPIRev,
                                    Token |-> t]] :
        a \in {<<>>, defaultAccount}, b \in {defaultBaseURL, <<"b", "/">>},
        t \in {<<>>, <<"n">>}}

InitAPI ==
    /\ accountFiles = [a \in AccountPool |-> Absent]
    /\ legacyFile = Absent
    /\ configFile \in {Absent, Corrupt} \cup {JsonFile(d) : d \in APIConfigDocs}
    /\ dirEntries = {}
    /\ modes = modesOf(accountFiles, legacyFile, configFile, dirEntries, ownerFile, ownerDir)
    /\ stores = [id \in StoreIds |-> NoStore]
    /\ procs = [p \in ProcIds |-> IdleProc]
    /\ mu = [i \in InstIds |-> Unlocked]
    /\ now = 1
    /\ input = <<>>
    /\ last = NoCall
    /\ savedClient = [a \in AccountPool |-> NoSavedClient]
    /\ lastSet = [ok |-> FALSE, arg |-> <<>>]
    /\ initialConfig = configFile
    /\ savedToken = [a \in AccountPool |-> NoSavedToken]
    /\ clearedAll = FALSE

NextAPI ==
    \/ \E env \in Envs : Load(env)
    \/ \E env \in Envs : LoadFile(env)
    \/ \E env \in Envs : RequireOfficialAPIClient(env)
    \/ \E cfg \in SaveInputs : Save(cfg)

SpecAPI == InitAPI /\ [][NextAPI]_vars

\* Two processes on account default: p1 constructs its store, which runs the
\* legacy migration, while p2, whose store was constructed before there was
\* a legacy file, saves the token of a login.  An older release may write the
\* legacy file at any time.
defaultStore == [account |-> defaultAccount, path |-> accountTokenPath(defaultAccount)]

InitMigrate ==
    /\ accountFiles = [a \in AccountPool |-> Absent]
    /\ legacyFile = Absent
    /\ configFile = Absent
    /\ dirEntries = {}
    /\ modes = modesOf(accountFiles, legacyFile, configFile, dirEntries, ownerFile, ownerDir)
    /\ stores = [id \in StoreIds |-> defaultStore]
    /\ procs = [p \in ProcIds |-> IdleProc]
    /\ mu = [i \in InstIds |-> Unlocked]
    /\ now = 1
    /\ input = <<>>
    /\ last = NoCall
    /\ savedClient = [a \in AccountPool |-> NoSavedClient]
    /\ lastSet = [ok |-> FALSE, arg |-> <<>>]
    /\ initialConfig = configFile
    /\ savedToken = [a \in AccountPool |-> NoSavedToken]
    /\ clearedAll = FALSE

NextMigrate ==
    \/ \E doc \in {LegacyDoc1, LegacyDoc2} : EditLegacyFile(JsonFile(doc))
    \/ MigrateStat("p1")
    \/ MigrateRead("p1")
    \/ MigrateWrite("p1")
    \/ \E token \in Tokens : Begin("p2", "i2", "SaveToken", token, "")
    \/ Acquire("p2")
    \/ MkdirStep("p2")
    \/ ReadStep("p2")
    \/ OpenStep("p2")
    \/ WriteStep("p2")
    \/ Release("p2")

SpecMigrate == InitMigrate /\ [][NextMigrate]_vars

\* The state of a home directory holding the given files, before any command.
HomeWith(tokenFiles, legacy, config) ==
    /\ accountFiles = tokenFiles
    /\ legacyFile = legacy
    /\ configFile = config
    /\ dirEntries = {}
    /\ modes = modesOf(accountFiles, legacyFile, configFile, dirEntries, ownerFile, ownerDir)
    /\ stores = [id \in StoreIds |-> NoStore]
    /\ procs = [p \in ProcIds |-> IdleProc]
    /\ mu = [i \in InstIds |-> Unlocked]
    /\ now = 1
    /\ input = <<>>
    /\ last = NoCall
    /\ savedClient = [a \in AccountPool |-> NoSavedClient]
    /\ lastSet = [ok |-> FALSE, arg |-> <<>>]
    /\ initialConfig = configFile
    /\ savedToken = [a \in AccountPool |-> NoSavedToken]
    /\ clearedAll = FALSE

\* `auth logout` and the store operations, over a home directory where every
\* account and the legacy file hold a token and the active account is the
\* default one or `work`.
InitCommands ==
    \E config \in {Absent, JsonFile("active_account" :> JStr(workAccount))} :
        HomeWith([a \in AccountPool |-> JsonFile(LegacyDoc2)], JsonFile(LegacyDoc1), config)

NextCommands ==
    \/ \E all \in BOOLEAN, account \in {<<>>, defaultAccount, workAccount} :
            AuthLogout(all, account)
    \/ \E account \in AccountPool : SetActiveAccount(account)
    \/ \E id \in StoreIds, account \in {<<>>} \cup AccountPool :
            NewFileTokenStoreForAccount(id, account)
    \/ \E id \in StoreIds : SaveToken(id, FALSE, Token2)
    \/ \E id \in StoreIds : SaveClientID(id, FALSE, "C1")
    \/ \E id \in StoreIds : Clear(id)
    \/ ClearAllTokens

SpecCommands == InitCommands /\ [][NextCommands]_vars

\* Everything that writes config.json: SetActiveAccount, login, logout,
\* `auth use` and `auth api setup`, over a home directory without tokens whose
\* config.json is missing, unreadable, or names a valid or an invalid account.
InitActive ==
    \E config \in {Absent, Corrupt}
            \cup {JsonFile("active_account" :> JStr(n)) : n \in {workAccount, invalidName}} :
        HomeWith([a \in AccountPool |-> Absent], Absent, config)

NextActive ==
    \/ \E all \in BOOLEAN, account \in {<<>>, workAccount} : AuthLogout(all, account)
    \/ \E account \in {defaultAccount, paddedWork, invalidName} : AuthUse(account)
    \/ \E account \in {<<>>, workAccount}, granted \in BOOLEAN :
            AuthLogin(account, Token1, granted)
    \/ \E account \in {workAccount, invalidName, <<" ">>} : SetActiveAccount(account)
    \/ AuthAPILoad("p1", <<"n">>, NoEnv)
    \/ AuthAPISave("p1")

SpecActive == InitActive /\ [][NextActive]_vars

\* An official-API command in one process while `auth use` or a logout in
\* another sets the active account.
NextAuthAPI ==
    \/ \E token \in {<<>>, <<"n">>}, env \in Envs : AuthAPILoad("p1", token, env)
    \/ AuthAPISave("p1")
    \/ \E account \in {defaultAccount, workAccount} : SetActiveAccount(account)

SpecAuthAPI == InitAPI /\ [][NextAuthAPI]_vars

\* One upload-status poll, with any answers of the server and a context that
\* may be cancelled at any moment.  The goroutine keeps running: a step of
\* it that is possible is eventually taken.
NextPoll ==
    \/ \E id \in {<<>>, <<" ">>, <<"u">>} : waitForFileUploadUploaded("p1", id)
    \/ \E response \in PollResponses : GetFileUploadStep("p1", response)
    \/ SelectStep("p1")
    \/ CancelContext("p1")

SpecPoll ==
    /\ Init
    /\ [][NextPoll]_vars
    /\ WF_vars(\E response \in PollResponses : GetFileUploadStep("p1", response))
    /\ WF_vars(SelectStep("p1"))

\* The auth commands over the token store while time passes.  The legacy
\* file, when there is one, holds a token without a refresh token.
InitAuth ==
    /\ accountFiles = [a \in AccountPool |-> Absent]
    /\ legacyFile \in {Absent, JsonFile(LegacyDoc2)}
    /\ configFile = Absent
    /\ dirEntries = {}
    /\ modes = modesOf(accountFiles, legacyFile, configFile, dirEntries, ownerFile, ownerDir)
    /\ stores = [id \in StoreIds |-> NoStore]
    /\ procs = [p \in ProcIds |-> IdleProc]
    /\ mu = [i \in InstIds |-> Unlocked]
    /\ now = 1
    /\ input = <<>>
    /\ last = NoCall
    /\ savedClient = [a \in AccountPool |-> NoSavedClient]
    /\ lastSet = [ok |-> FALSE, arg |-> <<>>]
    /\ initialConfig = configFile
    /\ savedToken = [a \in AccountPool |-> NoSavedToken]
    /\ clearedAll = FALSE

NextAuth ==
    \/ Tick
    \/ \E account \in {<<>>, paddedWork} : AuthStatus(account)
    \/ \E account \in {<<>>, paddedWork}, outcome \in RefreshOutcomes :
            AuthRefresh(account, outcome)
    \/ \E id \in StoreIds, account \in {<<>>, workAccount} :
            NewFileTokenStoreForAccount(id, account)
    \/ \E id \in StoreIds : GetToken(id, FALSE)
    \/ \E id \in StoreIds, token \in Tokens : SaveToken(id, FALSE, token)
    \/ \E id \in StoreIds : SaveClientID(id, FALSE, "C1")
    \/ \E id \in StoreIds : Clear(id)

SpecAuth == InitAuth /\ [][NextAuth]_vars

(***************************************************************************)
(* Properties.                                                             *)
(***************************************************************************)
AlphaNumerics == {"a", "Z", "0"}
NamePunctuation == {".", "_", "@", "+", "-"}

\* The account-name pattern, read off character by character.
MatchesAccountPattern(s) ==
    /\ s # <<>>
    /\ s[1] \in AlphaNumerics
    /\ \A i \in 2..Len(s) : s[i] \in AlphaNumerics \cup NamePunctuation

\* C8: ValidateAccountName succeeds on exactly the strings that match
\* ^[A-Za-z0-9][A-Za-z0-9._@+-]*$ and returns ErrInvalidAccount on every other
\* string: the empty string, a leading space, a leading dot, a / or a * anywhere.
C8_ValidateMatchesPattern ==
    last.op = "ValidateAccountName" =>
        /\ last.err \in {"", "ErrInvalidAccount"}
        /\ (last.err = "") <=> MatchesAccountPattern(last.arg)
        /\ last.arg \in {<<>>, <<" ", "a">>, <<".", "a">>, <<"a", "/", "a">>,
                          <<"a", "*", "a">>}
                => last.err = "ErrInvalidAccount"

C8_Witness ==
    /\ last.op = "ValidateAccountName"
    /\ last.arg = <<"a", "+", "-">>
    /\ last.err = ""

\* No active account was ever persisted: config.json was missing or a JSON
\* object without the key at start, and no SetActiveAccount has succeeded.
NeverPersisted ==
    /\ ~lastSet.ok
    /\ \/ initialConfig.kind = "absent"
       \/ initialConfig.kind = "json" /\ ~HasKey(initialConfig.doc, "active_account")

\* C7 as stated: ResolveAccountName(x) with a valid non-empty x returns x
\* whatever config.json holds; ResolveAccountName("") returns default when no
\* active account was ever persisted and otherwise the argument of the most
\* recent successful SetActiveAccount.
C7_Original ==
    last.op = "ResolveAccountName" =>
        /\ (last.arg # <<>> /\ ValidateAccountName(last.arg) = "")
                => (last.err = "" /\ last.out = last.arg)
        /\ (last.arg = <<>> /\ NeverPersisted)
                => (last.err = "" /\ last.out = defaultAccount)
        /\ (last.arg = <<>> /\ lastSet.ok)
                => (last.err = "" /\ last.out = lastSet.arg)

\* C7 (amended): ResolveAccountName(x) with a valid non-empty x returns x
\* whatever config.json holds; ResolveAccountName("") returns default when no
\* active account was ever persisted, and otherwise the argument of the most
\* recent successful SetActiveAccount with its surrounding white space trimmed.
C7_ResolutionPrecedence ==
    last.op = "ResolveAccountName" =>
        /\ (last.arg # <<>> /\ ValidateAccountName(last.arg) = "")
                => (last.err = "" /\ last.out = last.arg)
        /\ (last.arg = <<>> /\ NeverPersisted)
                => (last.err = "" /\ last.out = defaultAccount)
        /\ (last.arg = <<>> /\ lastSet.ok)
                => (last.err = "" /\ last.out = TrimSpace(lastSet.arg))

C7_Witness ==
    /\ last.op = "ResolveAccountName"
    /\ last.arg = <<>>
    /\ lastSet.ok
    /\ lastSet.arg = paddedWork
    /\ last.out = workAccount
    /\ initialConfig.kind = "json"
    /\ HasKey(initialConfig.doc, "active_account")

\* config.json holds a non-empty active_account that fails validation.
PersistedInvalid ==
    /\ configFile.kind = "json"
    /\ HasKey(configFile.doc, "active_account")
    /\ configFile.doc["active_account"].t = "str"
    /\ configFile.doc["active_account"].v # <<>>
    /\ ValidateAccountName(configFile.doc["active_account"].v) # ""

\* The last call consulted the persisted active account.
ConsultedActiveAccount ==
    \/ last.op \in {"ResolveAccountName", "NewFileTokenStoreForAccount"}
            /\ TrimSpace(last.arg) = <<>>
    \/ last.op \in {"GetActiveAccount", "ListAccounts"}

\* C9: while the persisted active_account is non-empty and invalid, every
\* operation that consults it (ResolveAccountName(""), GetActiveAccount,
\* NewFileTokenStoreForAccount("") and ListAccounts) returns ErrInvalidAccount;
\* none returns default, a store or a listing.
C9_InvalidActiveIsHardError ==
    (PersistedInvalid /\ ConsultedActiveAccount) =>
        /\ last.err = "ErrInvalidAccount"
        /\ last.op \in {"ResolveAccountName", "GetActiveAccount", "ListAccounts"}
                => last.out = <<>>
        /\ last.op = "NewFileTokenStoreForAccount" => last.out.store = NoStore

C9_Witness ==
    /\ PersistedInvalid
    /\ last.op = "ListAccounts"
    /\ last.err = "ErrInvalidAccount"
    /\ legacyFile.kind = "json"

\* The document SetActiveAccount found: a missing file is an empty document.
DocOf(file) == IF file.kind = "json" THEN file.doc ELSE EmptyDoc

\* C10 as stated, for arguments without surrounding white space: after a
\* successful SetActiveAccount(n), config.json is a JSON object whose
\* active_account is n and whose every other top-level key has exactly the
\* value it had before; a missing file yields a document with only active_account.
C10_Original ==
    [][(/\ last'.op = "SetActiveAccount"
        /\ last'.err = ""
        /\ TrimSpace(last'.arg) = last'.arg)
            => /\ configFile'.kind = "json"
               /\ configFile'.doc =
                    SetKey(DocOf(configFile), "active_account", JStr(last'.arg))]_vars

\* The candidate paths of an account: its own file and, for default alone,
\* the legacy file.
CandidateFiles(account) ==
    IF account = defaultAccount
    THEN {accountFiles[account], legacyFile}
    ELSE {accountFiles[account]}

\* C1: GetToken (with a live context) on a store bound to account A reads A's
\* per-account file first; it reads the legacy file only when A is default and
\* that file is absent; a store of another account never reads the legacy
\* file; and it returns ErrNoToken exactly when every candidate path is absent.
C1_LookupOrderAndNoToken ==
    (last.op = "GetToken" /\ ~last.arg) =>
        LET reads == last.out.reads
            own == accountTokenPath(last.account)
            readLegacy == \E i \in 1..Len(reads) : reads[i] = legacyTokenPath
        IN  /\ reads # <<>>
            /\ reads[1] = own
            /\ \A i \in 2..Len(reads) : reads[i] = legacyTokenPath /\ i = 2
            /\ readLegacy <=> (/\ last.account = defaultAccount
                                /\ accountFiles[last.account].kind = "absent")
            /\ (last.err = "ErrNoToken")
                    <=> (\A f \in CandidateFiles(last.account) : f.kind = "absent")

C1_Witness ==
    /\ last.op = "GetToken"
    /\ ~last.arg
    /\ last.account = defaultAccount
    /\ last.out.reads = <<accountTokenPath(defaultAccount), legacyTokenPath>>
    /\ last.err = ""
    /\ last.out.token.AccessToken = "AM"

\* C2: opening the default store with a legacy file and no per-account file
\* leaves a per-account file with the legacy file's content; opening it when
\* the per-account file exists does not change that file, whatever the legacy
\* file holds by then; the legacy file itself is never changed by opening.
C2_MigrationOnce ==
    [][(/\ last'.op = "NewFileTokenStoreForAccount"
        /\ last'.err = ""
        /\ last'.account = defaultAccount)
            => /\ (accountFiles[defaultAccount].kind = "absent" /\ legacyFile.kind # "absent")
                    => accountFiles'[defaultAccount] = legacyFile
               /\ accountFiles[defaultAccount].kind # "absent"
                    => accountFiles'[defaultAccount] = accountFiles[defaultAccount]
               /\ legacyFile' = legacyFile]_vars

C2_Witness ==
    /\ last.op = "NewFileTokenStoreForAccount"
    /\ last.account = defaultAccount
    /\ ~last.out.migrated
    /\ accountFiles[defaultAccount] = JsonFile(LegacyDoc1)
    /\ legacyFile = JsonFile(LegacyDoc2)

\* C3: with no Clear since the most recent successful SaveClientID on an
\* account, GetClientID (with a live context) on a store of that account
\* returns that call's argument, however many SaveToken calls followed it.
C3_ClientIDSurvivesSaveToken ==
    (/\ last.op = "GetClientID"
     /\ ~last.arg
     /\ savedClient[last.account].id # NoClient)
        => (last.err = "" /\ last.out = savedClient[last.account].id)

C3_Witness ==
    /\ last.op = "GetClientID"
    /\ ~last.arg
    /\ savedClient[last.account].id = "C2"
    /\ savedClient[last.account].tokenSavedSince
    /\ last.out = "C2"

\* C4: Clear on a default store removes the per-account file and the legacy
\* file; Clear on another account's store removes that account's file only,
\* leaving the legacy file in place; either leaves every other account's file
\* in place; and Clear returns no error, whether or not the files existed.
C4_ClearSemantics ==
    [][last'.op = "Clear"
            => /\ last'.err = ""
               /\ accountFiles'[last'.account] = Absent
               /\ \A b \in AccountPool \ {last'.account} : accountFiles'[b] = accountFiles[b]
               /\ legacyFile' = IF last'.account = defaultAccount THEN Absent
                                 ELSE legacyFile]_vars

C4_Witness ==
    /\ last.op = "Clear"
    /\ last.account = workAccount
    /\ last.err = ""
    /\ accountFiles[workAccount] = Absent
    /\ accountFiles[defaultAccount].kind = "json"
    /\ legacyFile.kind = "json"

\* C5 as stated: when the stored record has an empty access_token, GetToken
\* (with a live context) fails with ErrNoToken instead of returning a token.
C5_Original ==
    (/\ last.op = "GetToken"
     /\ ~last.arg
     /\ accountFiles[last.account].kind = "json"
     /\ UnmarshalStoredToken(accountFiles[last.account].doc).AccessToken = "")
        => last.err = "ErrNoToken"

\* C6 as stated: a successful SaveToken of a token with an empty refresh_token
\* over a stored record with a non-empty refresh_token leaves that
\* refresh_token in the file.
C6_Original ==
    [][(/\ last'.op = "SaveToken"
        /\ last'.err = ""
        /\ last'.arg.token.RefreshToken = ""
        /\ accountFiles[last'.account].kind = "json"
        /\ UnmarshalStoredToken(accountFiles[last'.account].doc).RefreshToken # "")
            => UnmarshalStoredToken(accountFiles'[last'.account].doc).RefreshToken
                 = UnmarshalStoredToken(accountFiles[last'.account].doc).RefreshToken]_vars

\* The accounts the claim names: the valid active account, the names of the
\* regular files <name>.json of the accounts directory that are valid account
\* names, and default when the legacy token file exists.
ListedAccounts ==
    (IF /\ configFile.kind = "json"
        /\ HasKey(configFile.doc, "active_account")
        /\ configFile.doc["active_account"].v # <<>>
     THEN {configFile.doc["active_account"].v} ELSE {})
    \cup {n \in {SubSeq(e.name, 1, Len(e.name) - Len(jsonSuffix)) :
                    e \in {d \in readDir : Len(d.name) >= Len(jsonSuffix)}} :
                /\ [name |-> n \o jsonSuffix, isDir |-> FALSE] \in readDir
                /\ ValidateAccountName(n) = ""}
    \cup (IF legacyFile.kind # "absent" THEN {defaultAccount} ELSE {})

\* C11: whenever ListAccounts returns a result, the result is strictly
\* ascending (so sorted and free of duplicates) and its elements are exactly
\* the valid active account, the valid names of the regular files <name>.json
\* in the accounts directory, and default if the legacy token file exists;
\* with files work.json and personal.json, a legacy file and active account
\* team the result is [default, personal, team, work].
C11_ListAccountsUnion ==
    (last.op = "ListAccounts" /\ last.err = "") =>
        /\ {last.out[i] : i \in 1..Len(last.out)} = ListedAccounts
        /\ \A i \in 1..(Len(last.out) - 1) : StrLess(last.out[i], last.out[i + 1])
        /\ (ListedAccounts = {defaultAccount, personalAccount, teamAccount, workAccount})
                => last.out = <<defaultAccount, personalAccount, teamAccount, workAccount>>

C11_Witness ==
    /\ last.op = "ListAccounts"
    /\ last.err = ""
    /\ accountFiles[workAccount].kind = "json"
    /\ accountFiles[defaultAccount].kind = "absent"
    /\ legacyFile.kind = "json"
    /\ configFile = JsonFile("active_account" :> JStr(teamAccount))
    /\ dirEntries = {e \in ExtraEntries : e.name[1] \in {"p", "t", "n", "-", "."}}
    /\ last.out = <<defaultAccount, personalAccount, teamAccount, workAccount>>

\* The goroutine is between acquiring and releasing its instance's lock.
Holding(p) == procs[p].pc \in {"mkdir", "read", "open", "write", "remove", "unlock"}

\* Every goroutine is outside a call.
Quiescent == \A p \in ProcIds : procs[p].pc \in {"idle", "done"}

\* C12: on one instance, two goroutines are inside the lock at once only if
\* both run GetToken or GetClientID, so no read overlaps SaveToken,
\* SaveClientID or Clear and no two of these overlap; and once a SaveToken(t)
\* and a SaveClientID(c), run at the same time beside reads only, have both
\* returned, the file holds t and c.
C12_LockSerialises ==
    /\ \A p, q \in ProcIds :
            (p # q /\ procs[p].inst = procs[q].inst /\ Holding(p) /\ Holding(q))
                => (IsRead(procs[p].op) /\ IsRead(procs[q].op))
    /\ \A p, q \in ProcIds :
            (/\ Quiescent
             /\ procs[p].op = "SaveToken" /\ procs[p].pc = "done"
             /\ procs[q].op = "SaveClientID" /\ procs[q].pc = "done"
             /\ \A r \in ProcIds \ {p, q} : procs[r].op \in {"none", "GetToken", "GetClientID"})
                => /\ accountFiles[workAccount].kind = "json"
                   /\ tokenOf(UnmarshalStoredToken(accountFiles[workAccount].doc))
                        = procs[p].token
                   /\ UnmarshalStoredToken(accountFiles[workAccount].doc).ClientID
                        = procs[q].clientID

C12_Witness ==
    /\ Quiescent
    /\ procs["p1"].op = "SaveToken" /\ procs["p1"].pc = "done"
    /\ procs["p2"].op = "SaveClientID" /\ procs["p2"].pc = "done"
    /\ procs["p3"].op = "GetToken" /\ procs["p3"].pc = "done"
    /\ last.op = "SaveToken"
    /\ tokenOf(UnmarshalStoredToken(accountFiles[workAccount].doc)) = Token1
    /\ UnmarshalStoredToken(accountFiles[workAccount].doc).ClientID = "C1"

\* C13 as stated: once the SaveToken/SaveClientID calls of two instances of
\* one account have returned, the file is the complete record written by the
\* instance that wrote last.
C13_Original ==
    (/\ Quiescent
     /\ last.op \in {"SaveToken", "SaveClientID"}
     /\ last.err = "")
        => accountFiles[workAccount] = JsonFile(procs[last.id].data)

\* The lost update C13 names: both calls returned without error, the file is
\* the complete record of the SaveToken, and the client id the other
\* instance saved is not in it.
C13_LostClientID ==
    /\ Quiescent
    /\ procs["p1"].op = "SaveClientID" /\ procs["p1"].pc = "done" /\ procs["p1"].err = ""
    /\ procs["p2"].op = "SaveToken" /\ procs["p2"].pc = "done" /\ procs["p2"].err = ""
    /\ accountFiles[workAccount] = JsonFile(procs["p2"].data)
    /\ UnmarshalStoredToken(accountFiles[workAccount].doc).ClientID # procs["p1"].clientID

\* What a store of the account reads: readStoredTokenUnlocked on an instance
\* NewFileTokenStoreForAccount would return for it.
StoredOf(account) ==
    readStoredTokenUnlocked([account |-> account, path |-> accountTokenPath(account)])

\* C14: a successful SaveClientID(c) on a store whose account has a stored
\* record leaves a record with the same access_token, token_type,
\* refresh_token and expires_at (and saved_at) as before, so GetToken returns
\* the same token, and with client_id c.
C14_SaveClientIDPreservesToken ==
    [][\A a \in AccountPool :
        (/\ last'.op = "SaveClientID"
         /\ last'.err = ""
         /\ last'.account = a
         /\ StoredOf(a).err = "")
            => /\ StoredOf(a)'.err = ""
               /\ tokenOf(StoredOf(a)'.stored) = tokenOf(StoredOf(a).stored)
               /\ StoredOf(a)'.stored.SavedAt = StoredOf(a).stored.SavedAt
               /\ StoredOf(a)'.stored.ClientID = last'.arg.clientID]_vars

C14_Witness ==
    /\ last.op = "SaveClientID"
    /\ last.err = ""
    /\ last.arg.clientID = "C2"
    /\ savedToken[last.account] = [saved |-> TRUE, token |-> Token1]
    /\ accountFiles[last.account].kind = "json"
    /\ tokenOf(UnmarshalStoredToken(accountFiles[last.account].doc)) = Token1
    /\ UnmarshalStoredToken(accountFiles[last.account].doc).ClientID = "C2"

\* C15: GetToken (with a live context) returns a decode error, and no token,
\* when the account's file is present and unparseable, whatever the legacy
\* file holds, and when for default the account's file is absent and the
\* legacy file is present and unparseable.
C15_UnparseableIsDecodeError ==
    (/\ last.op = "GetToken"
     /\ ~last.arg
     /\ \/ accountFiles[last.account].kind = "corrupt"
        \/ /\ last.account = defaultAccount
           /\ accountFiles[last.account].kind = "absent"
           /\ legacyFile.kind = "corrupt")
        => /\ last.err = "decode"
           /\ last.out.token = tokenOf(zeroStoredToken)

C15_Witness ==
    /\ last.op = "GetToken"
    /\ ~last.arg
    /\ last.account = defaultAccount
    /\ accountFiles[defaultAccount].kind = "corrupt"
    /\ legacyFile.kind = "json"
    /\ last.err = "decode"
    /\ last.out.reads = <<accountTokenPath(defaultAccount)>>

C17_SaveGetRoundTrip ==
    /\ (last.op = "GetToken" /\ savedToken[last.account].saved)
            => (last.err = "" /\ last.out.token = savedToken[last.account].token)
    /\ \A a \in AccountPool :
            (/\ last.op = "AuthStatus"
             /\ last.account = a
             /\ savedToken[a].saved
             /\ savedToken[a].token.AccessToken # "")
                => /\ last.err = ""
                   /\ last.out.has_token
                   /\ savedToken[a].token.ExpiresAt > now => last.out.authenticated
                   /\ (savedToken[a].token.ExpiresAt # 0 /\ savedToken[a].token.ExpiresAt < now)
                        => ~last.out.authenticated

C17_Witness ==
    /\ last.op = "AuthStatus"
    /\ last.account = workAccount
    /\ savedToken[workAccount] = [saved |-> TRUE, token |-> Token1]
    /\ now > Token1.ExpiresAt
    /\ last.out = [authenticated |-> FALSE, has_token |-> TRUE]
    /\ UnmarshalStoredToken(accountFiles[workAccount].doc).SavedAt < Token1.ExpiresAt

\* C18: `auth refresh` calls the refresh exchange only for an account whose
\* stored token has a non-empty refresh_token; with no stored token it fails
\* with ErrNoToken and with an empty refresh_token it fails with "no refresh
\* token", in both cases without calling the exchange and leaving what
\* GetToken returns for the account as it was.
C18_RefreshNeedsRefreshToken ==
    [][\A a \in AccountPool :
        (last'.op = "AuthRefresh" /\ last'.account = a)
            => /\ last'.out.exchanged
                    => (StoredOf(a).err = "" /\ StoredOf(a).stored.RefreshToken # "")
               /\ StoredOf(a).err = "ErrNoToken"
                    => /\ last'.err = "ErrNoToken"
                       /\ ~last'.out.exchanged
                       /\ StoredOf(a)'.err = "ErrNoToken"
               /\ (StoredOf(a).err = "" /\ StoredOf(a).stored.RefreshToken = "")
                    => /\ last'.err = "no refresh token"
                       /\ ~last'.out.exchanged
                       /\ StoredOf(a)'.err = ""
                       /\ tokenOf(StoredOf(a)'.stored) = tokenOf(StoredOf(a).stored)]_vars

C18_Witness ==
    /\ last.op = "AuthRefresh"
    /\ last.account = workAccount
    /\ last.err = "no refresh token"
    /\ ~last.out.exchanged
    /\ savedToken[workAccount] = [saved |-> TRUE, token |-> Token2]
    /\ tokenOf(StoredOf(workAccount).stored) = Token2

\* C19: GetClientID (with a live context) returns "" and no error when every
\* candidate path of the account is absent (its own file and, for default,
\* the legacy file); a file that is read and does not parse gives the decode
\* error, not "".
C19_GetClientIDNoToken ==
    (last.op = "GetClientID" /\ ~last.arg) =>
        /\ (\A f \in CandidateFiles(last.account) : f.kind = "absent")
                => (last.err = "" /\ last.out = "")
        /\ StoredOf(last.account).err \notin {"", "ErrNoToken"}
                => last.err = StoredOf(last.account).err
        /\ (\/ accountFiles[last.account].kind = "corrupt"
            \/ /\ last.account = defaultAccount
               /\ accountFiles[last.account].kind = "absent"
               /\ legacyFile.kind = "corrupt")
                => last.err = "decode"

C19_Witness ==
    /\ last.op = "GetClientID"
    /\ ~last.arg
    /\ last.account = defaultAccount
    /\ accountFiles[defaultAccount].kind = "absent"
    /\ legacyFile.kind = "absent"
    /\ last.err = ""
    /\ last.out = ""
    /\ clearedAll

\* The file a successful step wrote: the account file of a save or of a
\* migration, config.json of SetActiveAccount.
WroteFile(path) ==
    /\ last'.err = ""
    /\ \/ last'.op \in {"SaveToken", "SaveClientID"} /\ path = accountTokenPath(last'.account)
       \/ last'.op = "SetActiveAccount" /\ path = cliConfigPath
       \/ /\ last'.op = "NewFileTokenStoreForAccount"
          /\ last'.out.migrated
          /\ path = accountTokenPath(defaultAccount)

\* C20: after a successful SaveToken, SaveClientID, legacy migration or
\* SetActiveAccount the file written has mode 0600 and every directory the
\* step created has mode 0700, also when the file existed with a wider mode.
C20_Original ==
    [][/\ \A path \in PermPaths : WroteFile(path) => modes'[path] = ownerFile
       /\ \A dir \in {configDirPath, accountsDirectoryPath} :
            (modes[dir] = NoEntry /\ modes'[dir] # NoEntry) => modes'[dir] = ownerDir]_vars

\* What the writes do guarantee: a file the step created has mode 0600 and a
\* directory it created has mode 0700.
C20_CreatedOwnerOnly ==
    [][/\ \A path \in PermPaths :
            (WroteFile(path) /\ modes[path] = NoEntry) => modes'[path] = ownerFile
       /\ \A dir \in {configDirPath, accountsDirectoryPath} :
            (modes[dir] = NoEntry /\ modes'[dir] # NoEntry) => modes'[dir] = ownerDir]_vars

\* The api.token config.json holds, "" when it holds none.
PersistedToken == readConfig.cfg.API.Token

\* C21: Load returns NOTION_API_TOKEN when it is set and the persisted
\* api.token otherwise; LoadFile returns the persisted api.token whatever
\* the environment; with a readable config.json, RequireOfficialAPIClient
\* fails with "official API token is required" exactly when neither source
\* provides a token and succeeds when the file or the environment holds one.
C21_Original ==
    [][/\ (last'.op = "Load" /\ last'.err = "") =>
            last'.out.API.Token = IF last'.arg.NOTION_API_TOKEN # <<>>
                                  THEN last'.arg.NOTION_API_TOKEN ELSE PersistedToken
       /\ (last'.op = "LoadFile" /\ last'.err = "") =>
            last'.out.API.Token = PersistedToken
       /\ (last'.op = "RequireOfficialAPIClient" /\ readConfig.err = "") =>
            /\ (last'.err = "official API token is required")
                    <=> (last'.arg.NOTION_API_TOKEN = <<>> /\ PersistedToken = <<>>)
            /\ (last'.arg.NOTION_API_TOKEN # <<>> \/ PersistedToken # <<>>)
                    => last'.err = ""]_vars

\* What the code does guarantee: the same with every token trimmed, so that
\* an environment value of white space counts as set and provides no token.
C21_TrimmedToken ==
    [][LET effective == TrimSpace(IF last'.arg.NOTION_API_TOKEN # <<>>
                                  THEN last'.arg.NOTION_API_TOKEN ELSE PersistedToken)
       IN  /\ (last'.op = "Load" /\ last'.err = "") => last'.out.API.Token = effective
           /\ (last'.op = "LoadFile" /\ last'.err = "") =>
                last'.out.API.Token = TrimSpace(PersistedToken)
           /\ (last'.op = "RequireOfficialAPIClient" /\ readConfig.err = "") =>
                IF effective = <<>> THEN last'.err = "official API token is required"
                ELSE last'.err = "" /\ last'.out.token = effective]_vars

\* The api object of a config document, empty when it has none.
APIOf(doc) == IF HasKey(doc, "api") /\ doc["api"].t = "obj" THEN doc["api"].v ELSE EmptyDoc

\* A successful Save over a config.json that held a JSON object keeps the
\* keys it does not own, with their values as they were or, when decoded,
\* as json.Unmarshal into `any` reads them; removes api.token for an empty
\* token; and leaves active_account alone for an empty account.
SaveMerges(decoded) ==
    (last'.op = "Save" /\ last'.err = "" /\ configFile.kind = "json") =>
        LET old == configFile.doc
            new == configFile'.doc
            view(val) == IF decoded THEN DecodeAny(val) ELSE val
        IN  /\ \A k \in DOMAIN old \ {"active_account", "api"} :
                    HasKey(new, k) /\ new[k] = view(old[k])
            /\ \A k \in DOMAIN APIOf(old) \ {"base_url", "notion_version", "token"} :
                    HasKey(APIOf(new), k) /\ APIOf(new)[k] = view(APIOf(old)[k])
            /\ last'.arg.API.Token = <<>> => ~HasKey(APIOf(new), "token")
            /\ last'.arg.ActiveAccount = <<>> =>
                    /\ HasKey(new, "active_account") <=> HasKey(old, "active_account")
                    /\ HasKey(old, "active_account") =>
                            new["active_account"] = view(old["active_account"])

\* C22: config.Save merges into the document on disk: every top-level key
\* other than active_account and api, and every key of api other than
\* base_url, notion_version and token, keeps its previous value; an empty
\* API token removes api.token; an empty ActiveAccount leaves active_account
\* untouched.
C22_Original == [][SaveMerges(FALSE)]_vars

\* What Save does guarantee: the same, each kept value being what
\* json.Unmarshal into `any` makes of it (a number becomes the nearest float64).
C22_MergesDecoded == [][SaveMerges(TRUE)]_vars

\* The poll goroutine and what it returned.
Poll == procs["p1"]
PollDone == Poll.op = "waitForFileUploadUploaded" /\ Poll.pc = "done"

\* C23: the upload-status poll issues at most 20 status requests and
\* terminates; it returns the upload exactly at the first status that is
\* empty or uploaded, an error at the first status that is neither pending
\* nor uploaded, the timeout error when the 20th status is still pending,
\* and the context's error, without another request, when the context is
\* done while it waits between two attempts.
C23_PollTerminates ==
    /\ [](Poll.op = "waitForFileUploadUploaded" =>
            /\ Poll.data.requests <= maxChecks
            /\ Poll.data.requests \in {Poll.data.i, Poll.data.i + 1}
            /\ (Poll.pc = "select" \/ (Poll.pc = "get" /\ Poll.data.i > 0))
                    => lowerTrimmed(Poll.data.status) = "pending"
            /\ PollDone =>
                    CASE Poll.err = "" ->
                            lowerTrimmed(Poll.data.status) \in {"", "uploaded"}
                      [] Poll.err = "failed with status" ->
                            lowerTrimmed(Poll.data.status) \notin {"", "uploaded", "pending"}
                      [] Poll.err = "did not reach uploaded status in time" ->
                            /\ Poll.data.requests = maxChecks
                            /\ lowerTrimmed(Poll.data.status) = "pending"
                      [] OTHER -> TRUE)
    /\ [][(Poll.op = "waitForFileUploadUploaded" /\ Poll.pc = "get"
            /\ ~Poll.data.ctxDone /\ Poll'.pc = "done" /\ Poll'.err # "request failed")
                => /\ lowerTrimmed(Poll'.data.status) \in {"", "uploaded"}
                        <=> Poll'.err = ""
                   /\ (lowerTrimmed(Poll'.data.status) = "pending"
                            /\ Poll'.data.requests = maxChecks)
                        <=> Poll'.err = "did not reach uploaded status in time"]_vars
    /\ [][(Poll.op = "waitForFileUploadUploaded" /\ Poll.pc = "select"
            /\ Poll.data.ctxDone /\ Poll' # Poll)
                => /\ Poll'.pc = "done"
                   /\ Poll'.err = "context canceled"
                   /\ Poll'.data.requests = Poll.data.requests]_vars
    /\ (Poll.op = "waitForFileUploadUploaded") ~> PollDone

\* The context is done while the poll waits after its third pending status,
\* and the poll has returned the context's error after three requests.
C23_Witness ==
    /\ PollDone
    /\ Poll.err = "context canceled"
    /\ Poll.data.ctxDone
    /\ Poll.data.requests = 3
    /\ Poll.data.i = 2
    /\ Poll.data.status = "pending"

\* C24: a migration never overwrites a default.json that another process
\* created after the migration's existence check: once the migration of p1
\* and the successful SaveToken of p2 have both returned, and the save wrote
\* before the migration did, default.json is the record the save wrote.
C24_Original ==
    (/\ procs["p1"].op = "migrateLegacyDefaultIfNeeded" /\ procs["p1"].pc = "done"
     /\ procs["p2"].op = "SaveToken" /\ procs["p2"].pc = "done" /\ procs["p2"].err = ""
     /\ last.op = "migrateLegacyDefaultIfNeeded")
        => accountFiles[defaultAccount] = JsonFile(procs["p2"].data)

\* C25: the config.Save of an official-API command never reverts the active
\* account: when SetActiveAccount(n) succeeded and the command then saves
\* the Config it loaded earlier, active_account on disk is still n.
C25_Original ==
    [][(/\ procs["p1"].op = "auth api" /\ procs["p1"].pc = "save"
        /\ procs'["p1"].pc = "done" /\ procs'["p1"].err = ""
        /\ lastSet.ok)
            => /\ HasKey(configFile'.doc, "active_account")
               /\ configFile'.doc["active_account"] = JStr(lastSet.arg)]_vars

\* C26: a SaveToken or SaveClientID whose context is cancelled, or whose
\* account has a record that is present but cannot be read, returns an error
\* and leaves every token file as it was.
C26_FailedSaveLeavesFile ==
    [][\A a \in AccountPool :
        (/\ last'.op \in {"SaveToken", "SaveClientID"}
         /\ last'.account = a
         /\ \/ last'.arg.cancelled
            \/ StoredOf(a).err \notin {"", "ErrNoToken"})
            => /\ last'.err # ""
               /\ accountFiles' = accountFiles
               /\ legacyFile' = legacyFile]_vars

\* A SaveToken with a live context has failed on a damaged token file, which
\* is still the damaged file.
C26_Witness ==
    /\ last.op = "SaveToken"
    /\ ~last.arg.cancelled
    /\ last.err = "decode"
    /\ accountFiles[last.account] = Corrupt

\* The active_account config.json holds, "" when there is none to read.
PersistedActive(file) ==
    IF file.kind = "json" /\ HasKey(file.doc, "active_account")
            /\ file.doc["active_account"].t = "str"
    THEN file.doc["active_account"].v
    ELSE <<>>

\* One step of SaveToken, SaveClientID or Clear on a store.
StoreStep == last'.op \in {"SaveToken", "SaveClientID", "Clear"}

\* The call of this step removes the legacy file by design: Clear on the
\* default account, alone or as part of `auth logout`, or ClearAllTokens,
\* alone or as part of `auth logout --all`.
RemovesLegacy ==
    \/ last'.op = "ClearAllTokens"
    \/ last'.op = "Clear" /\ stores[last'.id].account = defaultAccount
    \/ last'.op = "AuthLogout" /\ (last'.arg.all \/ last'.account = defaultAccount)

\* C27: SaveToken, SaveClientID and Clear on a store bound to account A leave
\* the per-account file of every other account and config.json as they are;
\* the legacy file is never written and is removed only by Clear on the default
\* account or by ClearAllTokens; a store keeps the account and the path it was
\* constructed with, whatever SetActiveAccount does afterwards.
C27_AccountIsolation ==
    [][/\ StoreStep =>
            /\ \A b \in AccountPool \ {stores[last'.id].account} :
                    accountFiles'[b] = accountFiles[b]
            /\ configFile' = configFile
            /\ stores[last'.id].path = accountTokenPath(stores[last'.id].account)
            /\ last'.op # "Clear" => legacyFile' = legacyFile
       /\ legacyFile' # legacyFile => legacyFile' = Absent /\ RemovesLegacy
       /\ stores' # stores => last'.op = "NewFileTokenStoreForAccount"]_vars

\* A store bound to `work` has saved a token while the persisted active
\* account is `default` and the default account's file is a different one.
C27_Witness ==
    /\ last.op = "SaveToken"
    /\ last.err = ""
    /\ stores[last.id].account = workAccount
    /\ PersistedActive(configFile) = defaultAccount
    /\ accountFiles[defaultAccount] # Absent
    /\ accountFiles[defaultAccount] # accountFiles[workAccount]
    /\ legacyFile # Absent

\* C28: a successful `auth logout` of account A leaves A without a token and
\* the persisted active account at default if A was the active account, and
\* config.json as it was otherwise; a successful `auth logout --all` leaves no
\* token at all and the persisted active account at default; --all together
\* with an explicit account fails and changes no file.
C28_LogoutKeepsActiveConsistent ==
    [][last'.op = "AuthLogout" =>
        LET all == last'.arg.all
            A == last'.account
            before == resolveAccountNameForHome(<<>>)
        IN  /\ all /\ last'.arg.account # <<>> =>
                    /\ last'.err # ""
                    /\ UNCHANGED fsVars
            /\ all /\ last'.err = "" =>
                    /\ \A a \in AccountPool : accountFiles'[a] = Absent
                    /\ legacyFile' = Absent
                    /\ \A f \in {configFile'} : PersistedActive(f) = defaultAccount
            /\ ~all /\ last'.err = "" =>
                    /\ accountFiles'[A] = Absent
                    /\ A = defaultAccount => legacyFile' = Absent
                    /\ IF before.name = A
                       THEN \A f \in {configFile'} : PersistedActive(f) = defaultAccount
                       ELSE configFile' = configFile]_vars

\* `auth logout` of the active account `work`, which held a token, has reset
\* the persisted active account to default and left the default account's token.
C28_Witness ==
    /\ last.op = "AuthLogout"
    /\ last.err = ""
    /\ ~last.arg.all
    /\ last.account = workAccount
    /\ initialConfig # Absent
    /\ PersistedActive(configFile) = defaultAccount
    /\ accountFiles[workAccount] = Absent
    /\ accountFiles[defaultAccount] # Absent

\* The file holds a non-empty active_account that fails validation.
InvalidActive(file) ==
    /\ PersistedActive(file) # <<>>
    /\ ValidateAccountName(PersistedActive(file)) # ""

\* C29: SetActiveAccount with a name that fails validation after trimming
\* returns ErrInvalidAccount and leaves config.json unchanged; and if the
\* active_account config.json started with is absent or valid, the one it
\* holds is absent or valid after any sequence of SetActiveAccount, login,
\* logout, `auth use` and config.Save.
C29_NeverPersistsInvalid ==
    /\ [](~InvalidActive(initialConfig) => ~InvalidActive(configFile))
    /\ [][last'.op = "SetActiveAccount"
                /\ ValidateAccountName(TrimSpace(last'.arg)) # ""
            => last'.err = "ErrInvalidAccount" /\ configFile' = configFile]_vars

\* SetActiveAccount has refused an invalid name, after a setup command saved
\* the api section into a config.json whose active account is `work`.
C29_Witness ==
    /\ last.op = "SetActiveAccount"
    /\ last.arg = invalidName
    /\ last.err = "ErrInvalidAccount"
    /\ ~InvalidActive(initialConfig)
    /\ configFile.kind = "json"
    /\ HasKey(configFile.doc, "api")
    /\ PersistedActive(configFile) = workAccount

\* The last call returned a normalized Config.
Normalized == last.op \in {"normalize", "Load"} /\ last.err = ""

\* C30 as stated: after normalization api.base_url is non-empty, has no
\* leading or trailing white space and does not end in "/", api.notion_version
\* is non-empty, and normalizing the result again changes nothing.
C30_Original ==
    Normalized =>
        LET base == last.out.API.BaseURL
        IN  /\ base # <<>>
            /\ TrimSpace(base) = base
            /\ base[Len(base)] # "/"
            /\ last.out.API.NotionVersion # <<>>
            /\ normalize(last.out) = last.out

\* What normalization does establish: base_url has no leading white space and
\* does not end in "/", notion_version is non-empty and trimmed, the token is
\* trimmed; and a base URL without "/" comes out non-empty, trimmed and stable.
C30_NormalizedFields ==
    Normalized =>
        LET base == last.out.API.BaseURL
        IN  /\ base # <<>> => base[1] # " " /\ base[Len(base)] # "/"
            /\ last.out.API.NotionVersion # <<>>
            /\ TrimSpace(last.out.API.NotionVersion) = last.out.API.NotionVersion
            /\ TrimSpace(last.out.API.Token) = last.out.API.Token
            /\ (\A i \in 1..Len(input) : input[i] # "/") =>
                    /\ base # <<>>
                    /\ TrimSpace(base) = base
                    /\ normalize(last.out) = last.out

====
